---- MODULE Spec2Model ----
(***************************************************************************)
(* PrivMail secure search circuit builder (Search-with-MOTION/privmail.cpp) *)
(* modelled on the cleartext values carried by the wires.                  *)
(*                                                                         *)
(* A ShareWrapper is modelled as a sequence of wires, each wire a sequence *)
(* of SIMD lanes, each lane one bit:  share[w][s].  An 8-bit input bundle  *)
(* has 8 wires of one lane, least significant bit on wire 1.               *)
(***************************************************************************)
EXTENDS Integers, Sequences, FiniteSets, TLC

VARIABLES
  search_mode,           \* eNormal | eHidden | eBucket | eIndex
  bucket_scheme,         \* public bucket scheme of the query file
  modifier_chain_share,  \* decoded bytes of the modifier chain
  num_queries,           \* search_queries.size()
  mails,                 \* vector<mail_structure>
  search_index,          \* search_index.index_buckets
  pc,                    \* "fetch" | "search" | "built" | "done" | "failed"
  j,                     \* keyword loop index (0-based, as in the code)
  i,                     \* target loop index (0-based, as in the code)
  search_keyword,        \* the search query of iteration j
  search_results,        \* vector<ShareWrapper> search_results
  per_keyword,           \* wires fed into the chain in iteration j, one per target so far
  fault,                 \* "none" or the first fault the run met
  call,                  \* pure-function harness: the call and its arguments
  ret,                   \* pure-function harness: the value returned
  user_options,          \* main: the parsed command line (variables_map)
  main_pc,               \* main: "parse" | "load" | "create_party" | "search" | "exit"
  connections,           \* main: "none" | "open", the TCP mesh of the party
  exit_status,           \* main: "running" | "success" | "failure"
  query_file,            \* main: the YAML query file read by the loader
  search_queries,        \* main: vector<search_query> of SearchQueriesFromFile
  mail_directory,        \* main: the mail files of the directory
  plugin                 \* Thunderbird plugin: its tab ids, the tabs and the
                         \* compose tab, the mails sent; << >> outside the plugin

vars == << search_mode, bucket_scheme, modifier_chain_share, num_queries, mails,
           search_index, pc, j, i, search_keyword, search_results, per_keyword, fault,
           call, ret, user_options, main_pc, connections, exit_status, query_file,
           search_queries, mail_directory, plugin >>

main_vars == << user_options, main_pc, connections, exit_status, query_file,
                search_queries, mail_directory, plugin >>

builder_vars == << search_mode, bucket_scheme, modifier_chain_share, num_queries,
                   mails, search_index, pc, j, i, search_keyword, search_results,
                   per_keyword, fault >>

-----------------------------------------------------------------------------
(* Bounds of the model *)

MaxTextLen == 2
MaxBucket == 3
MaxKeywords == 2
MaxMails == 2
MaxBucketMails == 1
MaxWords == 1
MaxParties == 2
MaxBlobLen == 1
MaxSchemeLen == 2
MaxBase64Len == 8
MaxEntries == 2
MaxSeq == 1
MaxFiles == 2
MaxMessageLen == 2
MaxComposeAddresses == 2
MaxAttachments == 1
MaxTabs == 3
MaxLocals == 2
MaxDomains == 2
MaxAddresses == 3
MaxMessageBytes == 4
MaxShares == 3

(* Program constants *)

character_bitlen == 6
ByteBits == 8
Pad == 64
OtherByte == 65

Bits == {0, 1}
Bytes == 0..255

-----------------------------------------------------------------------------
(* Sequence helpers *)

SeqsUpTo(S, lo, hi) == UNION {[1..n -> S] : n \in lo..hi}

RECURSIVE Flatten(_)
Flatten(ss) == IF ss = << >> THEN << >> ELSE Head(ss) \o Flatten(Tail(ss))

\* the sequence f with every element evaluated
Tuple(f) == SubSeq(f, 1, Len(f))

Reverse(s) == Tuple([k \in 1..Len(s) |-> s[Len(s) + 1 - k]])

-----------------------------------------------------------------------------
(* The share algebra used by the builder (MOTION ShareWrapper) *)

BitOf(v, k) == (v \div (2 ^ k)) % 2

\* party->In<kBooleanGmw>(ToInput(one_byte), i): 8 wires, wire k carries bit k-1
ToInput(one_byte) == Tuple([w \in 1..ByteBits |-> << BitOf(one_byte, w - 1) >>])

\* the value carried by an 8-wire single-lane bundle
ByteValue(x) == x[1][1] + 2 * x[2][1] + 4 * x[3][1] + 8 * x[4][1] + 16 * x[5][1]
                + 32 * x[6][1] + 64 * x[7][1] + 128 * x[8][1]

full_zero == << << 0 >> >>

\* no value yet
Pending == << >>

BitLength(x) == Len(x)
NumberOfSimdValues(x) == IF x = << >> THEN 0 ELSE Len(x[1])

\* ShareWrapper::Split(): one share per wire; the SIMD lanes stay on the wire
Split(x) == Tuple([w \in 1..Len(x) |-> << x[w] >>])

\* ShareWrapper::Concatenate: the wires of the inputs, in order
Concatenate(xs) == Flatten(xs)

\* ShareWrapper::Simdify: the lanes of the inputs, in order, wire by wire
Simdify(xs) == Tuple([w \in 1..Len(xs[1]) |-> Flatten([k \in 1..Len(xs) |-> xs[k][w]])])

\* ShareWrapper::Unsimdify: one single-lane share per lane
Unsimdify(x) ==
  Tuple([s \in 1..NumberOfSimdValues(x) |-> Tuple([w \in 1..Len(x) |-> << x[w][s] >>])])

NotGate(x) ==
  Tuple([w \in 1..Len(x) |-> Tuple([s \in 1..Len(x[w]) |-> 1 - x[w][s]])])

XorGate(x, y) ==
  Tuple([w \in 1..Len(x) |-> Tuple([s \in 1..Len(x[w]) |-> (x[w][s] + y[w][s]) % 2])])

AndGate(x, y) ==
  Tuple([w \in 1..Len(x) |-> Tuple([s \in 1..Len(x[w]) |-> x[w][s] * y[w][s]])])

OrGate(x, y) ==
  Tuple([w \in 1..Len(x) |-> Tuple([s \in 1..Len(x[w]) |->
           IF x[w][s] + y[w][s] > 0 THEN 1 ELSE 0])])

Gate(op, x, y) == IF op = "and" THEN AndGate(x, y) ELSE OrGate(x, y)

\* LowDepthReduce / LowDepthReduceSIMD over a non-empty vector: a balanced tree
RECURSIVE LowDepthReduce(_, _)
LowDepthReduce(xs, op) ==
  IF Len(xs) = 1 THEN xs[1]
  ELSE LET h == (Len(xs) + 1) \div 2
       IN Gate(op, LowDepthReduce(SubSeq(xs, 1, h), op),
                   LowDepthReduce(SubSeq(xs, h + 1, Len(xs)), op))

-----------------------------------------------------------------------------
(* CreateChainingCircuit *)

ChainXorOr(previous_search_result, new_search_result, OR_BIT, NOT_BIT) ==
  XorGate(OrGate(XorGate(previous_search_result, OR_BIT),
                 XorGate(XorGate(new_search_result, NOT_BIT), OR_BIT)), OR_BIT)

CreateChainingCircuit(previous_search_result, new_search_result, OR_BIT, NOT_BIT) ==
  XorGate(AndGate(XorGate(previous_search_result, OR_BIT),
                  XorGate(XorGate(new_search_result, NOT_BIT), OR_BIT)), OR_BIT)

-----------------------------------------------------------------------------
(* Character comparison: ~(a ^ b) on the first character_bitlen wires *)

TruncatedCharacter8(x) == Concatenate(Split(x))

TruncatedCharacter(x) == Concatenate(SubSeq(Split(x), 1, character_bitlen))

\* not_xor_a_b.Split(): the per-bit equalities of one character pair
CharacterXnor(a, b) == Split(NotGate(XorGate(TruncatedCharacter(a), TruncatedCharacter(b))))

\* AND-reduction of the per-bit equalities of one character pair
CharacterMatch(a, b) == LowDepthReduce(CharacterXnor(a, b), "and")

-----------------------------------------------------------------------------
(* Input reconstruction: base64StringToInput / FromSharesToValue *)

RECURSIVE FromSharesToValueFrom(_, _, _)
FromSharesToValueFrom(shares, p, value) ==
  IF p > Len(shares) THEN value
  ELSE FromSharesToValueFrom(shares, p + 1,
         IF p = 1 THEN shares[1]
         ELSE [k \in 1..Len(value) |-> XorGate(value[k], shares[p][k])])

FromSharesDropLast(shares) ==
  FromSharesToValueFrom(SubSeq(shares, 1, Len(shares) - 1), 1, << >>)

FromSharesToValue(shares) == FromSharesToValueFrom(shares, 1, << >>)

\* A Base64 string is a sequence of characters: 0..63 is the position of the
\* character in base64_chars, Pad is '=', OtherByte is any other byte.
\* bit_stream is a std::uint32_t; it holds at most one sextet per offset
\* between two '=' free quads, far below 2^32 for strings of the lengths drawn.
RECURSIVE DecodeFrom(_, _, _, _, _)
DecodeFrom(data, p, decoded, bit_stream, counter) ==
  IF p > Len(data) THEN decoded
  ELSE IF data[p] \in 0..63
  THEN LET offset == 18 - (counter % 4) * 6
           stream == bit_stream + data[p] * (2 ^ offset)
       IN DecodeFrom(data, p + 1,
            IF offset = 12 THEN Append(decoded, (stream \div 65536) % 256)
            ELSE IF offset = 6 THEN Append(decoded, (stream \div 256) % 256)
            ELSE IF offset = 0 THEN Append(decoded, stream % 256)
            ELSE decoded,
            IF offset = 0 THEN 0 ELSE stream,
            counter + 1)
  ELSE IF data[p] # Pad THEN << >>
  ELSE DecodeFrom(data, p + 1, decoded, bit_stream, counter + 1)

\* as DecodeFrom, but a byte outside the alphabet ends the decoding with the
\* bytes decoded so far
RECURSIVE DecodeFromKeepsPrefix(_, _, _, _, _)
DecodeFromKeepsPrefix(data, p, decoded, bit_stream, counter) ==
  IF p > Len(data) THEN decoded
  ELSE IF data[p] \in 0..63
  THEN LET offset == 18 - (counter % 4) * 6
           stream == bit_stream + data[p] * (2 ^ offset)
       IN DecodeFromKeepsPrefix(data, p + 1,
            IF offset = 12 THEN Append(decoded, (stream \div 65536) % 256)
            ELSE IF offset = 6 THEN Append(decoded, (stream \div 256) % 256)
            ELSE IF offset = 0 THEN Append(decoded, stream % 256)
            ELSE decoded,
            IF offset = 0 THEN 0 ELSE stream,
            counter + 1)
  ELSE IF data[p] # Pad THEN decoded
  ELSE DecodeFromKeepsPrefix(data, p + 1, decoded, bit_stream, counter + 1)

DecoderKeepsPrefix(data) == DecodeFromKeepsPrefix(data, 1, << >>, 0, 0)

simple_base64_decoder(data) == DecodeFrom(data, 1, << >>, 0, 0)

\* the padding characters of the string are not subtracted
CharacterLengthIgnoresPadding(base64_string) ==
  LET difference == 3 * (Len(base64_string) \div 4)
  IN << (difference \div 65536) % 65536, difference % 65536 >>

\* A std::uint32_t is held as << high 16 bits, low 16 bits >>.  The difference
\* is computed in std::size_t and truncated to 32 bits by the return.
GetCharacterLengthFromBase64(base64_string) ==
  LET num_of_padding_chars ==
        Cardinality({p \in 1..Len(base64_string) : base64_string[p] = Pad})
      difference == 3 * (Len(base64_string) \div 4) - num_of_padding_chars
  IN << (difference \div 65536) % 65536, difference % 65536 >>

\* the input gates of every party for one blob: party p feeds its decoded bytes
InputShares(blobs) == [p \in 1..Len(blobs) |-> [k \in 1..Len(blobs[p]) |-> ToInput(blobs[p][k])]]

\* splitTo1bitShareWrappers: per byte, the wires most significant first
splitTo1bitShareWrappers(input) ==
  Flatten([k \in 1..Len(input) |-> Reverse(Split(input[k]))])

-----------------------------------------------------------------------------
(* Inputs of PrivMailSearch.  The state holds the decoded plaintext bytes,  *)
(* i.e. the XOR of the parties' blobs; base64StringToInput turns them into  *)
(* one 8-wire bundle per byte.                                              *)

TextChars == {1, 2}
KeywordChars == {1, 2}
PadChars == {1}

Reconstructed(bytes) == Tuple([k \in 1..Len(bytes) |-> ToInput(bytes[k])])

\* length mask of a keyword of true length L: L leading 1-bits in one byte
LengthMaskByte(L) == 256 - 2 ^ (ByteBits - L)

\* a search_query whose forms agree: bucketed = truncated followed by padding
SearchQuery(B, truncated, padding) ==
  [bucket_size |-> B,
   keyword_bucketed |-> truncated \o padding,
   keyword_length_mask |-> << LengthMaskByte(Len(truncated)) >>,
   keyword_truncated |-> truncated]

\* the queries of bucket size B whose true length is one of Lengths
SearchQueriesOf(B, Lengths) ==
  UNION {{SearchQuery(B, t, p) : t \in [1..L -> KeywordChars],
                                 p \in [1..(B - L) -> PadChars]} : L \in Lengths}

SearchQueries == UNION {SearchQueriesOf(B, 1..B) : B \in 1..MaxBucket}

IsAscending(s) == \A k \in 1..(Len(s) - 1) : s[k] < s[k + 1]
BucketSchemes == {s \in SeqsUpTo(1..MaxBucket, 1, MaxSchemeLen) : IsAscending(s)}

\* modifier chains of one byte whose first 2Q-1 bits take every value
ModifierChains(Q) == {<< (2 ^ (ByteBits + 1 - 2 * Q)) * v >> : v \in 0..(2 ^ (2 * Q - 1) - 1)}

Texts == SeqsUpTo(TextChars, 0, MaxTextLen)

-----------------------------------------------------------------------------
(* getMinKeywordLength: 0 stands for the exception thrown when the bucket  *)
(* size is not in the scheme                                               *)

IndexInScheme(bucket_size, scheme) ==
  IF \E k \in 1..Len(scheme) : scheme[k] = bucket_size
  THEN CHOOSE k \in 1..Len(scheme) :
         scheme[k] = bucket_size /\ \A h \in 1..(k - 1) : scheme[h] # bucket_size
  ELSE 0

InScheme(bucket_size, scheme) == IndexInScheme(bucket_size, scheme) # 0

\* the bucket size itself taken as the minimum length
MinKeywordLengthIsBucketSize(bucket_size, scheme) == bucket_size

getMinKeywordLength(bucket_size, scheme) ==
  LET it == IndexInScheme(bucket_size, scheme)
  IN IF it > 1 THEN scheme[it - 1] + 1 ELSE 1

-----------------------------------------------------------------------------
(* eNormal: one keyword against one target text (lines 193-262)            *)

NumPositions(target_size, keyword_size) == target_size - keyword_size + 1

\* the first character_bitlen wires of every character, concatenated
TruncatedString(chars, from, count) ==
  Concatenate([c \in 1..count |-> TruncatedCharacter(chars[from + c])])

\* a search that opens the first character of the text and of the keyword
NormalSearchOpensFirstCharacter(target_text, keyword) ==
  IF Len(target_text) >= 1 /\ Len(keyword) >= 1
     /\ ByteValue(target_text[1]) = ByteValue(keyword[1])
  THEN NotGate(full_zero)
  ELSE IF NumPositions(Len(target_text), Len(keyword)) < 1 THEN full_zero
  ELSE Tuple([w \in 1..1 |->
         Tuple([s \in 1..NumPositions(Len(target_text), Len(keyword)) |-> 0])])

NormalSearch(target_text, keyword) ==
  LET num_of_positions == NumPositions(Len(target_text), Len(keyword))
      xnor_splitted_per_position ==
        Tuple([k \in 1..num_of_positions |->
           Split(NotGate(XorGate(TruncatedString(keyword, 0, Len(keyword)),
                                 TruncatedString(target_text, k - 1, Len(keyword)))))])
      xnor_combined ==
        Tuple([b \in 1..Len(xnor_splitted_per_position[1]) |->
           Tuple([k \in 1..num_of_positions |-> xnor_splitted_per_position[k][b]])])
      xnor_concatenated ==
        Tuple([b \in 1..Len(xnor_combined) |-> Simdify(xnor_combined[b])])
      result_bits == LowDepthReduce(xnor_concatenated, "and")
  IN IF num_of_positions < 1 THEN full_zero
     ELSE LowDepthReduce(Split(result_bits), "or")

-----------------------------------------------------------------------------
(* eHidden / eBucket / eIndex: the batched comparison of one bucketed      *)
(* keyword (lines 328-400, 456-579, 635-744)                               *)

\* getBucketedKeywordInput: the query_input of a search_query
QueryInput(query) ==
  [bucket_size |-> query.bucket_size,
   search_keyword |-> Reconstructed(query.keyword_bucketed),
   length_mask |-> splitTo1bitShareWrappers(Reconstructed(query.keyword_length_mask))]

\* the character_bitlen wires pushed for a character slot past the end of the word
PastTheEnd == Tuple([b \in 1..character_bitlen |-> NotGate(full_zero)])

\* first pass over one word: per (text_position, c) the 6 split XNOR wires
WordXnors(word, keyword, num_of_positions) ==
  LET K == Len(keyword.search_keyword)
  IN Tuple([n \in 1..(IF num_of_positions < 1 THEN 0 ELSE num_of_positions * K) |->
       LET text_position == (n - 1) \div K
           c == (n - 1) % K
       IN IF c + text_position >= Len(word) THEN PastTheEnd
          ELSE CharacterXnor(keyword.search_keyword[c + 1], word[c + text_position + 1])])

\* first pass over one word: per (text_position, c) the negated length mask bit
WordMaskBits(keyword, num_of_positions) ==
  LET K == Len(keyword.search_keyword)
  IN Tuple([n \in 1..(IF num_of_positions < 1 THEN 0 ELSE num_of_positions * K) |->
       NotGate(keyword.length_mask[((n - 1) % K) + 1])])

\* zip, AND over the character bits, OR with the mask, regroup by character
\* index, AND over the characters: one single-lane wire per position
ComparisonResultsSplit(all_xnors, all_length_mask_bits, K) ==
  LET xor_combined ==
        Tuple([b \in 1..Len(all_xnors[1]) |->
          Tuple([n \in 1..Len(all_xnors) |-> all_xnors[n][b]])])
      xor_simd == Tuple([b \in 1..Len(xor_combined) |-> Simdify(xor_combined[b])])
      result_bits == LowDepthReduce(xor_simd, "and")
      result_after_length_mask ==
        Unsimdify(OrGate(Simdify(Split(result_bits)), Simdify(all_length_mask_bits)))
      results_combined ==
        Tuple([c \in 1..K |->
          Tuple([p \in 1..((Len(result_after_length_mask) - c + K) \div K) |->
                   result_after_length_mask[(p - 1) * K + c]])])
      res_concat == Tuple([c \in 1..K |-> Simdify(results_combined[c])])
      comparison_res_bits == LowDepthReduce(res_concat, "and")
  IN Unsimdify(comparison_res_bits)

\* a hidden search that answers 1 when there is no position to compare
HiddenSearchOneWhenEmpty(target_text, keyword, min_keyword_length) ==
  LET num_of_positions == NumPositions(Len(target_text), min_keyword_length)
  IN IF num_of_positions < 1 THEN NotGate(full_zero)
     ELSE LowDepthReduce(
            ComparisonResultsSplit(WordXnors(target_text, keyword, num_of_positions),
                                   WordMaskBits(keyword, num_of_positions),
                                   Len(keyword.search_keyword)), "or")

\* eHidden, one target text; full_zero when there is no position to compare
HiddenSearch(target_text, keyword, min_keyword_length) ==
  LET num_of_positions == NumPositions(Len(target_text), min_keyword_length)
  IN IF num_of_positions < 1 THEN full_zero
     ELSE LowDepthReduce(
            ComparisonResultsSplit(WordXnors(target_text, keyword, num_of_positions),
                                   WordMaskBits(keyword, num_of_positions),
                                   Len(keyword.search_keyword)), "or")

\* the test that makes a pass skip a bucket
SkippedFirstPass(target_bucket_size, keyword_bucket_size) ==
  target_bucket_size < keyword_bucket_size

SkippedSecondPass(target_bucket_size, keyword_bucket_size) ==
  target_bucket_size < keyword_bucket_size

\* the words the first pass compares, in iteration order
RECURSIVE FirstPassWords(_, _)
FirstPassWords(buckets, keyword) ==
  IF buckets = << >> THEN << >>
  ELSE (IF SkippedFirstPass(Head(buckets).bucket_size, keyword.bucket_size) THEN << >>
        ELSE Head(buckets).words) \o FirstPassWords(Tail(buckets), keyword)

FirstPassXnors(buckets, keyword, min_keyword_length) ==
  LET words == FirstPassWords(buckets, keyword)
  IN Flatten([k \in 1..Len(words) |->
       WordXnors(Reconstructed(words[k]), keyword,
                 NumPositions(Len(words[k]), min_keyword_length))])

\* all_xnors.size(): one entry per compared position and keyword character
RECURSIVE SumOfPositions(_, _)
SumOfPositions(words, min_keyword_length) ==
  IF words = << >> THEN 0
  ELSE (IF NumPositions(Len(Head(words)), min_keyword_length) < 1 THEN 0
        ELSE NumPositions(Len(Head(words)), min_keyword_length))
       + SumOfPositions(Tail(words), min_keyword_length)

AllXnorsSize(buckets, keyword, min_keyword_length) ==
  SumOfPositions(FirstPassWords(buckets, keyword), min_keyword_length)
  * Len(keyword.search_keyword)

FirstPassMaskBits(buckets, keyword, min_keyword_length) ==
  LET words == FirstPassWords(buckets, keyword)
  IN Flatten([k \in 1..Len(words) |->
       WordMaskBits(keyword, NumPositions(Len(words[k]), min_keyword_length))])

\* second pass over the words of one bucket: the OR over each word's positions,
\* taken from comparison_results_split at the running counter
RECURSIVE SecondPassWords(_, _, _, _)
SecondPassWords(words, min_keyword_length, comparison_results_split, counter) ==
  IF words = << >> THEN [results |-> << >>, counter |-> counter]
  ELSE LET num_of_positions == NumPositions(Len(Head(words)), min_keyword_length)
           taken == IF num_of_positions < 1 THEN 0 ELSE num_of_positions
           search_results_per_position ==
             SubSeq(comparison_results_split, counter + 1, counter + taken)
           rest == SecondPassWords(Tail(words), min_keyword_length,
                                   comparison_results_split, counter + taken)
       IN [results |-> << LowDepthReduce(search_results_per_position, "or") >> \o rest.results,
           counter |-> rest.counter]

\* second pass over the buckets: per bucket that is not skipped, its word results
RECURSIVE SecondPassBuckets(_, _, _, _, _)
SecondPassBuckets(buckets, keyword, min_keyword_length, comparison_results_split, counter) ==
  IF buckets = << >> THEN << >>
  ELSE IF SkippedSecondPass(Head(buckets).bucket_size, keyword.bucket_size)
       THEN SecondPassBuckets(Tail(buckets), keyword, min_keyword_length,
                              comparison_results_split, counter)
       ELSE LET per_word == SecondPassWords(Head(buckets).words, min_keyword_length,
                                            comparison_results_split, counter)
            IN << per_word.results >>
               \o SecondPassBuckets(Tail(buckets), keyword, min_keyword_length,
                                    comparison_results_split, per_word.counter)

\* every bucket searched, whatever its size, at every position of its words
BucketSearchEveryBucket(buckets, keyword, min_keyword_length) ==
  LET every == [keyword EXCEPT !.bucket_size = 0]
      comparison_results_split ==
        ComparisonResultsSplit(FirstPassXnors(buckets, every, 1),
                               FirstPassMaskBits(buckets, every, 1),
                               Len(keyword.search_keyword))
      per_bucket == SecondPassBuckets(buckets, every, 1, comparison_results_split, 0)
  IN IF buckets = << >> THEN full_zero
     ELSE LowDepthReduce([k \in 1..Len(per_bucket) |-> LowDepthReduce(per_bucket[k], "or")],
                         "or")

\* eBucket, one mail; full_zero when the first pass compared nothing
BucketSearch(buckets, keyword, min_keyword_length) ==
  LET all_xnors == FirstPassXnors(buckets, keyword, min_keyword_length)
      comparison_results_split ==
        ComparisonResultsSplit(all_xnors,
                               FirstPassMaskBits(buckets, keyword, min_keyword_length),
                               Len(keyword.search_keyword))
      per_bucket == SecondPassBuckets(buckets, keyword, min_keyword_length,
                                      comparison_results_split, 0)
      search_results_per_bucket ==
        Tuple([k \in 1..Len(per_bucket) |-> LowDepthReduce(per_bucket[k], "or")])
  IN IF AllXnorsSize(buckets, keyword, min_keyword_length) = 0 THEN full_zero
     ELSE LowDepthReduce(search_results_per_bucket, "or")

\* eIndex first pass: one full_zero per word of a skipped bucket
RECURSIVE IndexSkippedZeros(_, _)
IndexSkippedZeros(buckets, keyword) ==
  IF buckets = << >> THEN << >>
  ELSE (IF SkippedFirstPass(Head(buckets).bucket_size, keyword.bucket_size)
        THEN Tuple([k \in 1..Len(Head(buckets).words) |-> full_zero])
        ELSE << >>) \o IndexSkippedZeros(Tail(buckets), keyword)

\* eIndex: search_results_per_keyword when the first pass compared something
IndexSearch(buckets, keyword, min_keyword_length) ==
  LET comparison_results_split ==
        ComparisonResultsSplit(FirstPassXnors(buckets, keyword, min_keyword_length),
                               FirstPassMaskBits(buckets, keyword, min_keyword_length),
                               Len(keyword.search_keyword))
  IN IndexSkippedZeros(buckets, keyword)
     \o Flatten(SecondPassBuckets(buckets, keyword, min_keyword_length,
                                  comparison_results_split, 0))

-----------------------------------------------------------------------------
(* Chaining of one per-keyword wire into search_results[i] (lines 264-273) *)

ModifierChainInput(chain) == splitTo1bitShareWrappers(Reconstructed(chain))

IsBit(x) == BitLength(x) = 1 /\ NumberOfSimdValues(x) = 1 /\ x[1][1] \in Bits

\* A gate whose operands differ in their number of SIMD values is outside the
\* contract of the gate library: the value (and lane count) of its output is
\* not determined by the source.  Unspecified stands for every such output; it
\* equals no definite wire value and every gate fed with it yields it again.
Unspecified == << << 2 >> >>

ChainOutcome(jj, previous, match, chain) ==
  LET M == ModifierChainInput(chain)
  IN IF jj = 0
     THEN IF IsBit(match) THEN XorGate(match, M[1]) ELSE Unspecified
     ELSE IF IsBit(match) /\ IsBit(previous)
          THEN CreateChainingCircuit(previous, match, M[2 * jj], M[2 * jj + 1])
          ELSE Unspecified

-----------------------------------------------------------------------------------------------------------------------------------------------------
(* The inputs of a run: mails (text or buckets) or the search index        *)

MailText(text) == [secret_share_truncated_block |-> text, buckets |-> << >>]
MailBuckets(buckets) == [secret_share_truncated_block |-> << >>, buckets |-> buckets]

\* a bucket holds words padded to its size
Buckets(bucket_size) ==
  [bucket_size : {bucket_size},
   words : SeqsUpTo([1..bucket_size -> TextChars], 1, MaxWords)]

\* bucket vectors whose sizes are the given ones, in the given order
BucketsInOrder(sizes) ==
  {bs \in [1..Len(sizes) -> UNION {Buckets(sizes[k]) : k \in 1..Len(sizes)}] :
     \A k \in 1..Len(sizes) : bs[k].bucket_size = sizes[k]}

SchemeSizes(scheme) == {scheme[k] : k \in 1..Len(scheme)}

\* MailsFromDirectory keeps the buckets of a mail in the order of the scheme
MailBucketVectors(scheme) ==
  UNION {BucketsInOrder(sizes) :
           sizes \in {o \in SeqsUpTo(SchemeSizes(scheme), 0, Len(scheme)) : IsAscending(o)}}

\* IndexFromFile keeps the buckets in the order of the index file
IndexBucketVectors(scheme) ==
  UNION {BucketsInOrder(sizes) :
           sizes \in {o \in SeqsUpTo(SchemeSizes(scheme), 0, Len(scheme)) :
                        \A a, b \in 1..Len(o) : a # b => o[a] # o[b]}}

\* the words of the index in iteration order, each with the size of its bucket
IndexedWords(buckets) ==
  Flatten([b \in 1..Len(buckets) |->
             [k \in 1..Len(buckets[b].words) |->
                [bucket_size |-> buckets[b].bucket_size, word |-> buckets[b].words[k]]]])

MailVectors(MailSet, most) ==
  UNION {[1..n -> MailSet] : n \in 1..most}

-----------------------------------------------------------------------------
(* The builder as a state machine: one step per (keyword j, target i); in  *)
(* eIndex one step per keyword j                                           *)

NumTargets == IF search_mode = "eIndex" THEN Len(IndexedWords(search_index)) ELSE Len(mails)

InitNormal ==
  /\ search_mode = "eNormal"
  /\ bucket_scheme = << MaxBucket >>
  /\ mails \in MailVectors({MailText(t) : t \in Texts}, MaxMails)
  /\ search_index = << >>

InitHidden ==
  /\ search_mode = "eHidden"
  /\ bucket_scheme \in BucketSchemes
  /\ mails \in MailVectors({MailText(t) : t \in Texts}, MaxMails)
  /\ search_index = << >>

InitBucket ==
  /\ search_mode = "eBucket"
  /\ bucket_scheme \in BucketSchemes
  /\ mails \in MailVectors({MailBuckets(bs) : bs \in MailBucketVectors(bucket_scheme)},
                          MaxBucketMails)
  /\ search_index = << >>

InitIndex ==
  /\ search_mode = "eIndex"
  /\ bucket_scheme \in BucketSchemes
  /\ mails = << >>
  /\ search_index \in IndexBucketVectors(bucket_scheme)

\* PrivMailSearch called with a connected party on vectors held in memory
CalledWithParty ==
  /\ user_options = << >> /\ main_pc = "search" /\ connections = "open"
  /\ exit_status = "running" /\ query_file = << >> /\ search_queries = << >>
  /\ mail_directory = {} /\ plugin = << >>

InitBuilder ==
  /\ CalledWithParty
  /\ num_queries \in 1..MaxKeywords
  /\ modifier_chain_share \in ModifierChains(num_queries)
  /\ pc = "fetch" /\ j = 0 /\ i = 0
  /\ search_keyword = << >>
  /\ search_results = [k \in 1..NumTargets |-> << >>]
  /\ per_keyword = << >>
  /\ fault = "none"
  /\ call = << >> /\ ret = Pending

Init == (InitNormal \/ InitHidden \/ InitBucket \/ InitIndex) /\ InitBuilder

InitNormalMode == InitNormal /\ InitBuilder
InitHiddenMode == InitHidden /\ InitBuilder
InitBucketMode == InitBucket /\ InitBuilder
InitIndexMode == InitIndex /\ InitBuilder
InitMails == (InitNormal \/ InitHidden \/ InitBucket) /\ InitBuilder

inputs == << search_mode, bucket_scheme, modifier_chain_share, num_queries, mails,
             search_index, call, ret, main_vars >>

\* the loop counters after the body for (j, i) has run
Advance ==
  IF i + 1 < NumTargets
  THEN /\ i' = i + 1 /\ j' = j /\ pc' = pc
  ELSE /\ i' = 0 /\ j' = j + 1
       /\ pc' = IF j + 1 < num_queries THEN "fetch" ELSE "built"

\* record the wire fed into the chain for (j, i) and chain it
Chain(match) ==
  /\ search_results' = [search_results EXCEPT ![i + 1] =
                          ChainOutcome(j, @, match, modifier_chain_share)]
  /\ per_keyword' = Append(per_keyword, match)
  /\ fault' = IF fault = "none" /\ ~(IsBit(match) /\ (j = 0 \/ IsBit(search_results[i + 1])))
              THEN "simd_mismatch" ELSE fault
  /\ Advance

\* the queries a query file of the scheme holds: a keyword of true length L lies
\* in the smallest bucket that takes L characters; a file written for another
\* scheme may hold any bucket size
QueriesOfFile(scheme) ==
  UNION {SearchQueriesOf(B, IF InScheme(B, scheme)
                            THEN getMinKeywordLength(B, scheme)..B ELSE {B}) :
         B \in 1..MaxBucket}

\* auto search_keyword = search_keywords[j]
FetchKeyword ==
  /\ pc = "fetch"
  /\ search_keyword' \in IF search_mode = "eNormal" THEN SearchQueries
                         ELSE QueriesOfFile(bucket_scheme)
  /\ search_mode = "eNormal" => search_keyword'.keyword_bucketed = search_keyword'.keyword_truncated
  /\ per_keyword' = << >>
  /\ pc' = "search"
  /\ UNCHANGED << inputs, j, i, search_results, fault >>

NormalTarget ==
  /\ pc = "search" /\ search_mode = "eNormal" /\ i < NumTargets
  /\ Chain(NormalSearch(Reconstructed(mails[i + 1].secret_share_truncated_block),
                        Reconstructed(search_keyword.keyword_truncated)))
  /\ UNCHANGED << inputs, search_keyword >>

HiddenTarget ==
  /\ pc = "search" /\ search_mode = "eHidden" /\ i < NumTargets
  /\ InScheme(search_keyword.bucket_size, bucket_scheme)
  /\ Chain(HiddenSearch(Reconstructed(mails[i + 1].secret_share_truncated_block),
                        QueryInput(search_keyword),
                        getMinKeywordLength(search_keyword.bucket_size, bucket_scheme)))
  /\ UNCHANGED << inputs, search_keyword >>

BucketTarget ==
  /\ pc = "search" /\ search_mode = "eBucket" /\ i < NumTargets
  /\ InScheme(search_keyword.bucket_size, bucket_scheme)
  /\ Chain(BucketSearch(mails[i + 1].buckets, QueryInput(search_keyword),
                        getMinKeywordLength(search_keyword.bucket_size, bucket_scheme)))
  /\ UNCHANGED << inputs, search_keyword >>

\* the chaining loop of eIndex over all of search_results (lines 747-758)
ChainIndex(search_results_per_keyword) ==
  /\ search_results' = [k \in 1..Len(search_results) |->
                          ChainOutcome(j, search_results[k], search_results_per_keyword[k],
                                       modifier_chain_share)]
  /\ per_keyword' = search_results_per_keyword
  /\ i' = 0 /\ j' = j + 1
  /\ pc' = IF j + 1 < num_queries THEN "fetch" ELSE "built"

\* all_xnors.size() after the first pass of eIndex for the keyword of iteration j
IndexAllXnorsSize ==
  AllXnorsSize(search_index, QueryInput(search_keyword),
               getMinKeywordLength(search_keyword.bucket_size, bucket_scheme))

IndexKeyword ==
  /\ pc = "search" /\ search_mode = "eIndex"
  /\ InScheme(search_keyword.bucket_size, bucket_scheme)
  /\ IndexAllXnorsSize # 0
  /\ ChainIndex(IndexSearch(search_index, QueryInput(search_keyword),
                            getMinKeywordLength(search_keyword.bucket_size, bucket_scheme)))
  /\ UNCHANGED << inputs, search_keyword, fault >>

\* all_xnors[0] read while all_xnors is empty (line 680): the behaviour is
\* undefined; the run either ends in a memory fault ...
IndexEmptyFaults ==
  /\ pc = "search" /\ search_mode = "eIndex"
  /\ InScheme(search_keyword.bucket_size, bucket_scheme)
  /\ IndexAllXnorsSize = 0
  /\ pc' = "failed"
  /\ fault' = "out_of_bounds"
  /\ UNCHANGED << inputs, j, i, search_keyword, search_results, per_keyword >>

\* ... or goes on with the zeros pushed for the skipped words
IndexEmptyGoesOn ==
  /\ pc = "search" /\ search_mode = "eIndex"
  /\ InScheme(search_keyword.bucket_size, bucket_scheme)
  /\ IndexAllXnorsSize = 0
  /\ ChainIndex(IndexSkippedZeros(search_index, QueryInput(search_keyword)))
  /\ UNCHANGED << inputs, search_keyword, fault >>

\* getMinKeywordLength throws when the keyword's bucket size is not in the scheme
InvalidBucketSize ==
  /\ pc = "search" /\ search_mode \in {"eHidden", "eBucket", "eIndex"} /\ i = 0
  /\ ~InScheme(search_keyword.bucket_size, bucket_scheme)
  /\ pc' = "failed"
  /\ fault' = "invalid_argument"
  /\ UNCHANGED << inputs, j, i, search_keyword, search_results, per_keyword >>

\* party->Run(); party->Finish(); return search_results
RunAndFinish ==
  /\ pc = "built"
  /\ pc' = "done"
  /\ search_keyword' = << >>
  /\ UNCHANGED << inputs, j, i, search_results, per_keyword, fault >>

\* evaluation of a circuit holding a gate with mismatched operands may end the run
RunAborts ==
  /\ pc = "built" /\ fault = "simd_mismatch"
  /\ pc' = "failed"
  /\ search_keyword' = << >>
  /\ UNCHANGED << inputs, j, i, search_results, per_keyword, fault >>

Next == \/ FetchKeyword
        \/ NormalTarget
        \/ HiddenTarget
        \/ BucketTarget
        \/ IndexKeyword
        \/ IndexEmptyFaults
        \/ IndexEmptyGoesOn
        \/ InvalidBucketSize
        \/ RunAndFinish
        \/ RunAborts

Spec == Init /\ [][Next]_vars

\* one search mode at a time
NextNormal == FetchKeyword \/ NormalTarget \/ RunAndFinish \/ RunAborts
SpecNormal == InitNormalMode /\ [][NextNormal]_vars

NextHidden == FetchKeyword \/ HiddenTarget \/ InvalidBucketSize \/ RunAndFinish
SpecHidden == InitHiddenMode /\ [][NextHidden]_vars

NextBucket == FetchKeyword \/ BucketTarget \/ InvalidBucketSize \/ RunAndFinish
SpecBucket == InitBucketMode /\ [][NextBucket]_vars

NextIndex == \/ FetchKeyword
             \/ IndexKeyword
             \/ IndexEmptyFaults
             \/ IndexEmptyGoesOn
             \/ InvalidBucketSize
             \/ RunAndFinish
SpecIndex == InitIndexMode /\ [][NextIndex]_vars

\* the modes that search mail by mail
NextMails == \/ FetchKeyword
             \/ NormalTarget
             \/ HiddenTarget
             \/ BucketTarget
             \/ InvalidBucketSize
             \/ RunAndFinish
             \/ RunAborts
SpecMails == InitMails /\ [][NextMails]_vars

-----
(* Harness for the builder's pure functions.  Init draws a call, the actions *)
(* evaluate it as the code does.                                             *)

ShareBytes == {0, 90, 165, 255}

Wire1(b) == << << b >> >>

ByteXor(a, b) == ByteValue(XorGate(ToInput(a), ToInput(b)))

\* party 1 holds the plaintext, every other party the all-zero share
TrivialSharing(plain, N) == [p \in 1..N |-> IF p = 1 THEN plain ELSE [k \in 1..Len(plain) |-> 0]]

ChainCalls == [fn : {"CreateChainingCircuit"}, r : Bits, m : Bits, o : Bits, n : Bits]
CompareCalls == [fn : {"CharacterMatch"}, a : Bytes, b : Bytes]
InputCalls == UNION {[fn : {"base64StringToInput"},
                      first : {TrivialSharing(plain, N)},
                      second : {TrivialSharing(plain, N)}] :
                     plain \in SeqsUpTo(ShareBytes, 0, MaxBlobLen), N \in 1..MaxParties}

\* strings over two characters of the alphabet, '=' and one other byte
Base64Calls ==
  [fn : {"GetCharacterLengthFromBase64", "simple_base64_decoder"},
   s : SeqsUpTo({27, 44, Pad, OtherByte}, 0, MaxBase64Len)]

\* ---- Thunderbird plugin, crypto.js and common_function.js ----

\* the characters of a message: 'A', U+00E9 (two bytes in UTF-8) and
\* U+FEFF (three bytes, the byte order mark)
MessageChars == {65, 233, 65279}
KeyBytes == {0, 165}

\* TextEncoder('utf8').encode, for code points of the basic plane
TextEncode(message) ==
  Flatten([k \in 1..Len(message) |->
             IF message[k] < 128 THEN << message[k] >>
             ELSE IF message[k] < 2048
                  THEN << 192 + (message[k] \div 64), 128 + (message[k] % 64) >>
             ELSE << 224 + (message[k] \div 4096), 128 + ((message[k] \div 64) % 64),
                     128 + (message[k] % 64) >>])

\* the UTF-8 decoder on sequences of one to three bytes; a byte that starts
\* no well-formed sequence decodes to U+FFFD
RECURSIVE DecodeUtf8(_)
DecodeUtf8(bytes) ==
  IF bytes = << >> THEN << >>
  ELSE IF bytes[1] < 128 THEN << bytes[1] >> \o DecodeUtf8(Tail(bytes))
  ELSE IF /\ bytes[1] \in 194..223 /\ Len(bytes) >= 2 /\ bytes[2] \in 128..191
       THEN << (bytes[1] - 192) * 64 + (bytes[2] - 128) >> \o DecodeUtf8(Tail(Tail(bytes)))
  ELSE IF /\ bytes[1] \in 224..239 /\ Len(bytes) >= 3
          /\ bytes[2] \in (IF bytes[1] = 224 THEN 160..191
                           ELSE IF bytes[1] = 237 THEN 128..159 ELSE 128..191)
          /\ bytes[3] \in 128..191
       THEN << (bytes[1] - 224) * 4096 + (bytes[2] - 128) * 64 + (bytes[3] - 128) >>
            \o DecodeUtf8(SubSeq(bytes, 4, Len(bytes)))
       ELSE << 65533 >> \o DecodeUtf8(Tail(bytes))

\* new TextDecoder('utf8').decode: the decoder is built without ignoreBOM, so
\* a byte order mark at the start of the input is not part of the result
TextDecode(bytes) ==
  LET text == DecodeUtf8(bytes)
  IN IF text # << >> /\ text[1] = 65279 THEN Tail(text) ELSE text

\* btoa of the bytes: the positions in the Base64 alphabet, Pad for '='
RECURSIVE uint8ArrayToBase64(_)
uint8ArrayToBase64(array) ==
  IF array = << >> THEN << >>
  ELSE IF Len(array) = 1
       THEN << array[1] \div 4, (array[1] % 4) * 16, Pad, Pad >>
  ELSE IF Len(array) = 2
       THEN << array[1] \div 4, (array[1] % 4) * 16 + (array[2] \div 16),
               (array[2] % 16) * 4, Pad >>
  ELSE << array[1] \div 4, (array[1] % 4) * 16 + (array[2] \div 16),
          (array[2] % 16) * 4 + (array[3] \div 64), array[3] % 64 >>
       \o uint8ArrayToBase64(SubSeq(array, 4, Len(array)))

\* atob of a padded Base64 string written by btoa
RECURSIVE base64ToUint8Array(_)
base64ToUint8Array(base64) ==
  IF Len(base64) < 4 THEN << >>
  ELSE LET first == base64[1] * 4 + (base64[2] \div 16)
           second == (base64[2] % 16) * 16 + (base64[3] \div 4)
           third == (base64[3] % 4) * 64 + base64[4]
       IN IF base64[3] = Pad THEN << first >>
          ELSE IF base64[4] = Pad THEN << first, second >>
          ELSE << first, second, third >>
               \o base64ToUint8Array(SubSeq(base64, 5, Len(base64)))

\* bitwise XOR of two arrays of the same length (the plugin only calls it so)
xor(m1, m2) == [k \in 1..Len(m1) |-> ByteXor(m1[k], m2[k])]

RECURSIVE XorAll(_, _)
XorAll(base, arrays) ==
  IF arrays = << >> THEN base ELSE XorAll(xor(base, Head(arrays)), Tail(arrays))

\* secretShare(message, n) with the n - 1 random keys k it draws, in order:
\* the keys, then the message XORed with every key, each as Base64
secretShare(message, keys) ==
  LET res == keys \o << XorAll(TextEncode(message), keys) >>
  IN [k \in 1..Len(res) |-> uint8ArrayToBase64(res[k])]

\* secretCombine of a non-empty array of Base64 shares
secretCombine(array) ==
  TextDecode(XorAll(base64ToUint8Array(array[1]),
                    [k \in 1..(Len(array) - 1) |-> base64ToUint8Array(array[k + 1])]))

\* secretShare(message, n), the shares then combined in some order
ShareCalls ==
  [fn : {"secretShare"},
   message : {message \in SeqsUpTo(MessageChars, 0, MaxMessageLen) :
                Len(TextEncode(message)) <= MaxMessageBytes},
   n : 1..MaxShares]

\* ---- Thunderbird plugin, send.js ----

\* an e-mail address local@domain as << local, domain >>
Addresses == (1..MaxLocals) \X (1..MaxDomains)

Domain(address) == address[2]

Includes(array, x) == \E k \in 1..Len(array) : array[k] = x

\* lists of pairwise different addresses
AddressLists ==
  {list \in SeqsUpTo(Addresses, 0, MaxAddresses) :
     \A si, ri \in 1..Len(list) : list[si] = list[ri] => si = ri}

\* a domain match that does not look at the receivers already matched
SameDomainReceiverAgain(sender, receivers, res) ==
  LET found == {k \in 1..Len(receivers) : Domain(sender) = Domain(receivers[k])}
  IN IF found = {} THEN 0 ELSE CHOOSE k \in found : \A other \in found : k <= other

\* the inner loop of the first matching pass: the index of the first
\* receiver of the sender's domain that is not yet matched, 0 if there is none
SameDomainReceiver(sender, receivers, res) ==
  LET found == {k \in 1..Len(receivers) :
                  /\ Domain(sender) = Domain(receivers[k])
                  /\ ~Includes(res.receivers, receivers[k])}
  IN IF found = {} THEN 0 ELSE CHOOSE k \in found : \A other \in found : k <= other

\* the inner loop of the second pass: the first receiver not yet matched
FreeReceiver(receivers, res) ==
  LET found == {k \in 1..Len(receivers) : ~Includes(res.receivers, receivers[k])}
  IN IF found = {} THEN 0 ELSE CHOOSE k \in found : \A other \in found : k <= other

PushPair(res, sender, receiver) ==
  [senders |-> Append(res.senders, sender), receivers |-> Append(res.receivers, receiver)]

\* first pass, over the senders from index si on
RECURSIVE MatchSameDomains(_, _, _, _)
MatchSameDomains(senders, receivers, si, res) ==
  IF si > Len(senders) THEN res
  ELSE LET k == SameDomainReceiver(senders[si], receivers, res)
       IN MatchSameDomains(senders, receivers, si + 1,
            IF k = 0 THEN res ELSE PushPair(res, senders[si], receivers[k]))

\* second pass, over the senders from index si on
RECURSIVE MatchTheRest(_, _, _, _)
MatchTheRest(senders, receivers, si, res) ==
  IF si > Len(senders) THEN res
  ELSE LET k == IF Includes(res.senders, senders[si]) THEN 0 ELSE FreeReceiver(receivers, res)
       IN MatchTheRest(senders, receivers, si + 1,
            IF k = 0 THEN res ELSE PushPair(res, senders[si], receivers[k]))

getSenderReceiverPairs(senders, receivers) ==
  IF Len(senders) # Len(receivers)
  THEN [senders |-> Flatten([si \in 1..Len(senders) |-> [ri \in 1..Len(receivers) |-> senders[si]]]),
        receivers |-> Flatten([si \in 1..Len(senders) |-> receivers])]
  ELSE MatchTheRest(senders, receivers, 1,
         MatchSameDomains(senders, receivers, 1, [senders |-> << >>, receivers |-> << >>]))

PairCalls ==
  [fn : {"getSenderReceiverPairs"}, senders : AddressLists, receivers : AddressLists]

MinLengthCalls ==
  [fn : {"getMinKeywordLength"}, bucket_size : 1..MaxBucket, bucket_scheme : BucketSchemes]

\* one iteration of PrivMailSearch's loop over the keywords: a keyword of the
\* query file against one mail (eNormal, eHidden, eBucket) or against the
\* index (eIndex)
SearchCalls ==
  [fn : {"PrivMailSearch"}, search_mode : {"eNormal"}, bucket_scheme : {<< MaxBucket >>},
   text : Texts, buckets : {<< >>},
   query : {q \in SearchQueries : q.keyword_bucketed = q.keyword_truncated}]
  \cup UNION {[fn : {"PrivMailSearch"}, search_mode : {"eHidden"}, bucket_scheme : {scheme},
               text : Texts, buckets : {<< >>},
               query : {q \in QueriesOfFile(scheme) : InScheme(q.bucket_size, scheme)}] :
              scheme \in BucketSchemes}
  \cup UNION {[fn : {"PrivMailSearch"}, search_mode : {"eBucket"}, bucket_scheme : {scheme},
               text : {<< >>}, buckets : MailBucketVectors(scheme),
               query : {q \in QueriesOfFile(scheme) : InScheme(q.bucket_size, scheme)}] :
              scheme \in BucketSchemes}
  \cup UNION {[fn : {"PrivMailSearch"}, search_mode : {"eIndex"}, bucket_scheme : {scheme},
               text : {<< >>}, buckets : IndexBucketVectors(scheme),
               query : {q \in QueriesOfFile(scheme) : InScheme(q.bucket_size, scheme)}] :
              scheme \in BucketSchemes}

\* the wires the iteration feeds into the chain: one per mail, one per indexed
\* word in eIndex
SearchTargets(c) ==
  LET min_keyword_length == getMinKeywordLength(c.query.bucket_size, c.bucket_scheme)
  IN CASE c.search_mode = "eNormal" ->
            << NormalSearch(Reconstructed(c.text), Reconstructed(c.query.keyword_truncated)) >>
       [] c.search_mode = "eHidden" ->
            << HiddenSearch(Reconstructed(c.text), QueryInput(c.query), min_keyword_length) >>
       [] c.search_mode = "eBucket" ->
            << BucketSearch(c.buckets, QueryInput(c.query), min_keyword_length) >>
       [] c.search_mode = "eIndex" ->
            IF AllXnorsSize(c.buckets, QueryInput(c.query), min_keyword_length) = 0
            THEN IndexSkippedZeros(c.buckets, QueryInput(c.query))
            ELSE IndexSearch(c.buckets, QueryInput(c.query), min_keyword_length)

BuilderIdle ==
  /\ search_mode = "none" /\ bucket_scheme = << >> /\ modifier_chain_share = << >>
  /\ num_queries = 0 /\ mails = << >> /\ search_index = << >> /\ pc = "idle"
  /\ j = 0 /\ i = 0 /\ search_keyword = << >> /\ search_results = << >>
  /\ per_keyword = << >> /\ fault = "none"

InitFn ==
  /\ BuilderIdle
  /\ user_options = << >> /\ main_pc = "none" /\ connections = "none"
  /\ exit_status = "running" /\ query_file = << >> /\ search_queries = << >>
  /\ mail_directory = {} /\ plugin = << >>
  /\ call \in ChainCalls \cup CompareCalls \cup InputCalls \cup Base64Calls \cup SearchCalls
                \cup MinLengthCalls \cup ShareCalls \cup PairCalls
  /\ ret = Pending

CallCreateChainingCircuit ==
  /\ call.fn = "CreateChainingCircuit" /\ ret = Pending
  /\ ret' = CreateChainingCircuit(Wire1(call.r), Wire1(call.m), Wire1(call.o), Wire1(call.n))
  /\ UNCHANGED << builder_vars, main_vars, call >>

CallCharacterMatch ==
  /\ call.fn = "CharacterMatch" /\ ret = Pending
  /\ ret' = CharacterMatch(ToInput(call.a), ToInput(call.b))
  /\ UNCHANGED << builder_vars, main_vars, call >>

\* the builder run on the two share assignments held in the call
CallBase64StringToInput ==
  /\ call.fn = "base64StringToInput" /\ ret = Pending
  /\ ret' = << FromSharesToValue(InputShares(call.first)),
               FromSharesToValue(InputShares(call.second)) >>
  /\ UNCHANGED << builder_vars, main_vars, call >>

CallGetCharacterLengthFromBase64 ==
  /\ call.fn = "GetCharacterLengthFromBase64" /\ ret = Pending
  /\ ret' = GetCharacterLengthFromBase64(call.s)
  /\ UNCHANGED << builder_vars, main_vars, call >>

CallSimpleBase64Decoder ==
  /\ call.fn = "simple_base64_decoder" /\ ret = Pending
  /\ ret' = << simple_base64_decoder(call.s) >>
  /\ UNCHANGED << builder_vars, main_vars, call >>

\* 0 stands for std::invalid_argument
CallGetMinKeywordLength ==
  /\ call.fn = "getMinKeywordLength" /\ ret = Pending
  /\ ret' = << IF InScheme(call.bucket_size, call.bucket_scheme)
               THEN getMinKeywordLength(call.bucket_size, call.bucket_scheme) ELSE 0 >>
  /\ UNCHANGED << builder_vars, main_vars, call >>

\* secretShare draws its keys with getRandomValues; the shares reach
\* secretCombine in the order in which the inbox query returns the mails
CallSecretShare ==
  /\ call.fn = "secretShare" /\ ret = Pending
  /\ \E keys \in [1..(call.n - 1) -> [1..Len(TextEncode(call.message)) -> KeyBytes]],
        order \in Permutations(1..call.n) :
       LET shares == secretShare(call.message, keys)
       IN ret' = << shares, secretCombine([k \in 1..call.n |-> shares[order[k]]]) >>
  /\ UNCHANGED << builder_vars, main_vars, call >>

CallGetSenderReceiverPairs ==
  /\ call.fn = "getSenderReceiverPairs" /\ ret = Pending
  /\ ret' = << getSenderReceiverPairs(call.senders, call.receivers) >>
  /\ UNCHANGED << builder_vars, main_vars, call >>

\* the second element marks the read of all_xnors[0] in eIndex while all_xnors
\* is empty (line 680), after which the run may have ended in a memory fault
CallPrivMailSearch ==
  /\ call.fn = "PrivMailSearch" /\ ret = Pending
  /\ \/ ret' = << SearchTargets(call), FALSE >>
     \/ /\ call.search_mode = "eIndex"
        /\ AllXnorsSize(call.buckets, QueryInput(call.query),
                        getMinKeywordLength(call.query.bucket_size, call.bucket_scheme)) = 0
        /\ ret' = << SearchTargets(call), TRUE >>
  /\ UNCHANGED << builder_vars, main_vars, call >>

\* a fresh sharing of the same plaintext: mask d moves between parties p and q
Reshare ==
  /\ call.fn = "base64StringToInput"
  /\ \E p \in 1..Len(call.second), k \in 1..Len(call.second[1]), d \in ShareBytes \ {0} :
       LET q == (p % Len(call.second)) + 1
           moved == [call.second EXCEPT ![p][k] = ByteXor(@, d)]
       IN call' = [call EXCEPT !.second = [moved EXCEPT ![q][k] = ByteXor(@, d)]]
  /\ ret' = Pending
  /\ UNCHANGED << builder_vars, main_vars >>

\* the parties exchange their shares: party p and its neighbour swap
PermuteShares ==
  /\ call.fn = "base64StringToInput"
  /\ \E p \in 1..Len(call.second) :
       LET q == (p % Len(call.second)) + 1
       IN call' = [call EXCEPT !.second = [call.second EXCEPT ![p] = call.second[q],
                                                             ![q] = call.second[p]]]
  /\ ret' = Pending
  /\ UNCHANGED << builder_vars, main_vars >>

NextFn == \/ CallCreateChainingCircuit
          \/ CallCharacterMatch
          \/ CallBase64StringToInput
          \/ CallGetCharacterLengthFromBase64
          \/ CallSimpleBase64Decoder
          \/ CallPrivMailSearch
          \/ CallGetMinKeywordLength
          \/ CallSecretShare
          \/ CallGetSenderReceiverPairs
          \/ Reshare
          \/ PermuteShares

SpecFn == InitFn /\ [][NextFn]_vars

-----------------------------------------------------------------------------
(* The program: main of privmail_main.cpp runs ParseProgramOptions, the     *)
(* loaders, CreateParty and PrivMailSearch one after the other.  main_pc is *)
(* the stage the program is in; when exit_status is not "running" it is the *)
(* stage the program ended in.  An exception nobody catches and a failed    *)
(* assert end the process with a non-zero status ("failure").               *)

\* a --parties argument: its id, the number of dotted groups of its host, its
\* port; the last two arguments are a host of three groups and a port above 2^16
PartyArguments ==
  [id : 0..MaxParties, host : {4}, port : {23000}]
    \cup {[id |-> 0, host |-> 3, port |-> 23000], [id |-> 0, host |-> 4, port |-> 70000]}

\* the regular expression is not consulted
AnyPartyArgumentSyntax(party_argument) == TRUE

\* kPartyArgumentRegex: digits, four dotted groups, one to five digits
CheckPartyArgumentSyntax(party_argument) ==
  party_argument.host = 4 /\ party_argument.port <= 99999

\* the command line: my_id -1 is an absent --my-id, parties << >> an absent
\* --parties, search_mode "absent" an absent --search-mode; no other option is given
CommandLines ==
  [help : BOOLEAN, my_id : {-1, 0, MaxParties},
   parties : SeqsUpTo(PartyArguments, 0, MaxParties),
   search_mode : {"absent", "normal", "hidden", "bucket", "index", "other"},
   query_file_path : BOOLEAN, mail_dir_path : BOOLEAN, index_file_path : BOOLEAN]

\* user_options["help"] || ac == 1
HelpPrinted(o) ==
  \/ o.help
  \/ /\ o.my_id = -1 /\ o.parties = << >> /\ o.search_mode = "absent"
     /\ ~o.query_file_path /\ ~o.mail_dir_path /\ ~o.index_file_path

\* none of the runtime_errors of ParseProgramOptions is thrown
OptionsAccepted(o) ==
  /\ o.my_id # -1
  /\ o.parties # << >>
  /\ \A k \in 1..Len(o.parties) : CheckPartyArgumentSyntax(o.parties[k])
  /\ o.query_file_path
  /\ o.mail_dir_path \/ o.index_file_path

ParseProgramOptions ==
  /\ main_pc = "parse" /\ exit_status = "running"
  /\ exit_status' = IF HelpPrinted(user_options) THEN "success"
                    ELSE IF OptionsAccepted(user_options) THEN "running" ELSE "failure"
  /\ main_pc' = IF ~HelpPrinted(user_options) /\ OptionsAccepted(user_options)
                THEN "load" ELSE "parse"
  /\ UNCHANGED << builder_vars, call, ret, user_options, connections, query_file,
                  search_queries, mail_directory, plugin >>

\* --search-mode has the default value "normal"
GetSearchMode(in_string) ==
  CASE in_string \in {"absent", "normal"} -> "eNormal"
    [] in_string = "hidden" -> "eHidden"
    [] in_string = "bucket" -> "eBucket"
    [] in_string = "index" -> "eIndex"
    [] OTHER -> "eError"

\* the keys of a keyword entry of the query file
KeywordKeys == {"keyword", "keyword_bucket_size", "keyword_bucketed",
                "keyword_length_mask", "keyword_truncated"}

\* the entries of `keywords`: whether the entry has the key `field`, which
\* keyword keys it has, and the values of these.  In turn: only `field`; only
\* `keyword`; `field` and `keyword`; `field` and every keyword key, with a bucket
\* size of the scheme << 1, 2 >> of the file or with one outside it; every key
\* and one more that no loader reads
QueryEntries ==
  [field : {TRUE}, keys : {{}, {"keyword"}}, query : {SearchQuery(1, << 1 >>, << >>)}]
    \cup {[field |-> FALSE, keys |-> {"keyword"}, query |-> SearchQuery(1, << 1 >>, << >>)]}
    \cup [field : {TRUE}, keys : {KeywordKeys},
          query : {SearchQuery(1, << 1 >>, << >>),
                   SearchQuery(MaxBucket, << 1 >>, [k \in 1..(MaxBucket - 1) |-> 1])}]
    \cup {[field |-> TRUE, keys |-> KeywordKeys \cup {"comment"},
           query |-> SearchQuery(1, << 1 >>, << >>)]}

QueryFiles ==
  [modifier_chain_share : {<< 0 >>}, bucket_scheme : {<< 1, 2 >>},
   keywords : SeqsUpTo(QueryEntries, 0, MaxEntries)]

\* query_from_file.size(): the number of keys of the entry
NodeSize(query_from_file) ==
  (IF query_from_file.field THEN 1 ELSE 0) + Cardinality(query_from_file.keys)

\* the entries with one key are passed over; the queries of the other entries
\* are pushed in the order of the file
RECURSIVE SearchQueriesFromFile(_)
SearchQueriesFromFile(keywords) ==
  IF keywords = << >> THEN << >>
  ELSE IF NodeSize(Head(keywords)) = 1 THEN SearchQueriesFromFile(Tail(keywords))
  ELSE << Head(keywords).query >> \o SearchQueriesFromFile(Tail(keywords))

\* as<>() of a key the entry does not have throws
LoaderThrows(keywords) ==
  \E k \in 1..Len(keywords) :
     NodeSize(keywords[k]) # 1 /\ ~(KeywordKeys \subseteq keywords[k].keys)

\* the mail files of a directory: a mail whose text is the one word << 1, 2 >>,
\* under distinct sequence numbers below 2^32 - 1
MailDirectories ==
  {[sequence_number : files, secret_share_truncated_block : {<< 1, 2 >>},
    secret_share_bucket_blocks : {{[bucket_size |-> 2, words |-> << << 1, 2 >> >>]}}] :
     files \in {f \in SUBSET (0..MaxSeq) : Cardinality(f) <= MaxFiles}}

\* a default-constructed mail_structure at every sequence number without a
\* file; the buckets of a mail in the order of the scheme
MailsInDirectoryOrder(directory, scheme) ==
  LET numbers == {file.sequence_number : file \in directory}
      Rank(n) == Cardinality({m \in numbers : m <= n})
      FileOf(r) == CHOOSE file \in directory : Rank(file.sequence_number) = r
  IN [r \in 1..Cardinality(directory) |->
        [secret_share_truncated_block |-> FileOf(r).secret_share_truncated_block,
         buckets |-> << >>]]

MailsFromDirectory(directory, scheme) ==
  LET numbers == {file.sequence_number : file \in directory}
      max_seq_number == IF numbers = {} THEN 0
                        ELSE CHOOSE n \in numbers : \A m \in numbers : m <= n
      BucketsOf(file) ==
        LET sizes == SelectSeq(scheme, LAMBDA bucket_size :
                       \E bucket \in file.secret_share_bucket_blocks :
                          bucket.bucket_size = bucket_size)
        IN [k \in 1..Len(sizes) |->
              CHOOSE bucket \in file.secret_share_bucket_blocks : bucket.bucket_size = sizes[k]]
      Mail(n) ==
        IF n \in numbers
        THEN LET file == CHOOSE f \in directory : f.sequence_number = n
             IN [secret_share_truncated_block |-> file.secret_share_truncated_block,
                 buckets |-> BucketsOf(file)]
        ELSE [secret_share_truncated_block |-> << >>, buckets |-> << >>]
  IN [n \in 1..(max_seq_number + 1) |-> Mail(n - 1)]

\* lines 69-96 of main: the search mode, the query file, the mails, the index.
\* The index file holds buckets of size 1.
LoadInputs ==
  /\ main_pc = "load" /\ exit_status = "running"
  /\ \E file \in QueryFiles, directory \in MailDirectories,
        index \in IndexBucketVectors(<< 1 >>) :
       /\ (user_options.mail_dir_path /\ ~LoaderThrows(file.keywords)) \/ directory = {}
       /\ (user_options.index_file_path /\ ~LoaderThrows(file.keywords)) \/ index = << >>
       /\ query_file' = file
       /\ search_mode' = GetSearchMode(user_options.search_mode)
       /\ modifier_chain_share' = file.modifier_chain_share
       /\ bucket_scheme' = file.bucket_scheme
       /\ mail_directory' = directory
       /\ search_index' = index
       /\ IF LoaderThrows(file.keywords)
          THEN /\ exit_status' = "failure" /\ main_pc' = "load"
               /\ search_queries' = << >> /\ mails' = << >>
          ELSE /\ exit_status' = "running" /\ main_pc' = "create_party"
               /\ search_queries' = SearchQueriesFromFile(file.keywords)
               /\ mails' = IF user_options.mail_dir_path
                           THEN MailsFromDirectory(directory, file.bucket_scheme)
                           ELSE << >>
       /\ num_queries' = Len(search_queries')
  /\ UNCHANGED << pc, j, i, search_keyword, search_results, per_keyword, fault,
                  call, ret, user_options, connections, plugin >>

\* the checks of CreateParty, ParsePartyArgument of every argument (the port is
\* cast to std::uint16_t), then TcpSetupHelper::SetupConnections
CreateParty ==
  /\ main_pc = "create_party" /\ exit_status = "running"
  /\ LET parties_string == user_options.parties
         number_of_parties == Len(parties_string)
         accepted ==
           /\ user_options.my_id < number_of_parties
           /\ \A k \in 1..number_of_parties :
                /\ parties_string[k].port <= 65535
                /\ parties_string[k].id < number_of_parties
         \* parties_configuration has an entry for every party; where one is left
         \* default-constructed, SetupConnections may or may not get through
         complete ==
           {parties_string[k].id : k \in 1..number_of_parties}
             = 0..(number_of_parties - 1)
     IN \E established \in (IF complete THEN {TRUE} ELSE BOOLEAN) :
          /\ connections' = IF accepted /\ established THEN "open" ELSE "none"
          /\ exit_status' = IF accepted /\ established THEN "running" ELSE "failure"
          /\ main_pc' = IF accepted /\ established THEN "search" ELSE "create_party"
  /\ UNCHANGED << builder_vars, call, ret, user_options, query_file, search_queries,
                  mail_directory, plugin >>

\* 2 * search_keywords.size() - 1 is computed in std::size_t: without keywords
\* it is the largest std::size_t, which the size of no vector reaches
ModifierChainLongEnough ==
  /\ num_queries # 0
  /\ Len(ModifierChainInput(modifier_chain_share)) >= 2 * num_queries - 1

\* PrivMailSearch up to the loop over the keywords: the inputs are decoded and
\* search_results is resized, its elements default-constructed.  The assert on
\* the modifier chain holds or is compiled out (NDEBUG).
EnterPrivMailSearch ==
  /\ main_pc = "search" /\ exit_status = "running" /\ pc = "idle"
  /\ num_queries = 0 \/ ModifierChainLongEnough
  /\ IF search_mode = "eError"
     THEN /\ pc' = "failed" /\ fault' = "invalid_search_mode"
          /\ search_results' = search_results
     ELSE /\ pc' = IF num_queries >= 1 THEN "fetch" ELSE "built"
          /\ fault' = fault
          /\ search_results' = [k \in 1..NumTargets |-> << >>]
  /\ UNCHANGED << inputs, j, i, search_keyword, per_keyword >>

\* the assert on the modifier chain is compiled in and fails
ModifierChainAssertFails ==
  /\ main_pc = "search" /\ exit_status = "running" /\ pc = "idle"
  /\ search_mode # "eError" /\ ~ModifierChainLongEnough
  /\ pc' = "failed" /\ fault' = "assertion"
  /\ UNCHANGED << inputs, j, i, search_keyword, search_results, per_keyword >>

\* auto search_keyword = search_keywords[j], of the queries loaded
FetchLoadedKeyword ==
  /\ pc = "fetch" /\ exit_status = "running"
  /\ search_keyword' = search_queries[j + 1]
  /\ per_keyword' = << >>
  /\ pc' = "search"
  /\ UNCHANGED << inputs, j, i, search_results, fault >>

\* the loop over the targets of eNormal, eHidden or eBucket without a target
NoTargets ==
  /\ pc = "search" /\ search_mode \in {"eNormal", "eHidden", "eBucket"}
  /\ NumTargets = 0
  /\ search_mode = "eNormal" \/ InScheme(search_keyword.bucket_size, bucket_scheme)
  /\ i' = 0 /\ j' = j + 1
  /\ pc' = IF j + 1 < num_queries THEN "fetch" ELSE "built"
  /\ UNCHANGED << inputs, search_keyword, search_results, per_keyword, fault >>

\* the statistics emitted as soon as the circuit is built
ReportBeforeRun ==
  /\ main_pc = "search" /\ pc \in {"built", "done"} /\ exit_status = "running"
  /\ exit_status' = "success"
  /\ connections' = "closed"
  /\ UNCHANGED << builder_vars, call, ret, user_options, main_pc, query_file,
                  search_queries, mail_directory, plugin >>

\* PrivMailSearch has returned: the statistics are written, main returns EXIT_SUCCESS
Report ==
  /\ main_pc = "search" /\ exit_status = "running" /\ pc = "done"
  /\ exit_status' = "success" /\ connections' = "closed"
  /\ UNCHANGED << builder_vars, call, ret, user_options, main_pc, query_file,
                  search_queries, mail_directory, plugin >>

\* PrivMailSearch has thrown, aborted or crashed
Terminate ==
  /\ main_pc = "search" /\ exit_status = "running" /\ pc = "failed"
  /\ exit_status' = "failure" /\ connections' = "closed"
  /\ UNCHANGED << builder_vars, call, ret, user_options, main_pc, query_file,
                  search_queries, mail_directory, plugin >>

InitMain ==
  /\ BuilderIdle
  /\ call = << >> /\ ret = Pending
  /\ user_options \in CommandLines
  /\ main_pc = "parse" /\ connections = "none" /\ exit_status = "running"
  /\ query_file = << >> /\ search_queries = << >> /\ mail_directory = {}
  /\ plugin = << >>

NextMain == \/ ParseProgramOptions
            \/ LoadInputs
            \/ CreateParty
            \/ EnterPrivMailSearch
            \/ ModifierChainAssertFails
            \/ FetchLoadedKeyword
            \/ NoTargets
            \/ NormalTarget
            \/ HiddenTarget
            \/ BucketTarget
            \/ IndexKeyword
            \/ IndexEmptyFaults
            \/ IndexEmptyGoesOn
            \/ InvalidBucketSize
            \/ RunAndFinish
            \/ RunAborts
            \/ Report
            \/ Terminate

SpecMain == InitMain /\ [][NextMain]_vars

-----------------------------------------------------------------------------
(* The Thunderbird plugin: the send button runs sendEncrypted on the compose *)
(* tab, the combine button decryptMessage; the plugin shows errors, warnings *)
(* and the combined mail in tabs of its own, whose ids it keeps.  The        *)
(* browser numbers the tabs upwards and never reuses an id.                  *)

Undefined == "undefined"

\* details.from and details.to of a compose tab: well-formed addresses,
\* two of the first domain and one of the second
ComposeLists ==
  SeqsUpTo({address \in Addresses : address[1] = 1 \/ address[2] = 1}, 0, MaxComposeAddresses)

Unsupported == {"none", "bcc", "cc", "replyTo", "followupTo"}

\* what the user has put into the compose tab; accounts tells whether
\* Thunderbird has an account for every sender address
ComposeDetails ==
  [open : {TRUE}, from : ComposeLists, to : ComposeLists, extra : Unsupported,
   accounts : BOOLEAN, attachments : 0..MaxAttachments]

\* secretShare(message, n).length: the loop runs for i = 1 .. n - 1, then
\* the last share is pushed
ShareCount(n) == IF n < 1 THEN 1 ELSE n

\* a domain check that always finds a differing domain
AlwaysFoundDiffering(list) == FALSE

\* the domains of a list are all that of its first entry
\* (the loops of common_function.js:161-168 and 174-181 find no other)
FoundNoDiffering(list) ==
  \A k \in 1..Len(list) : Domain(list[1]) = Domain(list[k])

OpenTabs(p) == {tab[1] : tab \in p.tabs}

\* browser.tabs.remove(tabID) by the plugin; removing a tab that is not
\* open is rejected by the browser
RemoveTab(p, tabID) ==
  [p EXCEPT !.tabs = {tab \in @ : tab[1] # tabID},
            !.removed_closed = @ \/ tabID \notin OpenTabs(p)]

\* browser.tabs.create: the new tab gets the next id
CreateTab(p, kind) ==
  [p EXCEPT !.tabs = @ \cup {<< p.next_id, kind >>}, !.next_id = @ + 1]

showError(p) ==
  LET removed == IF p.errorTabID # 0 THEN RemoveTab(p, p.errorTabID) ELSE p
  IN [CreateTab(removed, "error") EXCEPT !.errorTabID = p.next_id]

showWarning(p) ==
  LET removed == IF p.warningTabID # 0 THEN RemoveTab(p, p.warningTabID) ELSE p
  IN [CreateTab(removed, "warning") EXCEPT !.warningTabID = p.next_id]

\* errorCheck: the error message or undefined, and whether showWarning was
\* called.  The sender addresses of the model all match the address pattern.
errorCheck(strictSecurity, details, senders, receivers) ==
  LET senderIDs == IF details.accounts THEN Len(senders) ELSE -1
      sharedMessage == ShareCount(Len(senders))
      warnings == (IF strictSecurity THEN << >> ELSE << "strict security mode is not enabled" >>)
                  \o (IF FoundNoDiffering(senders)
                      THEN << "the outgoing mail server can reconstruct the email" >> ELSE << >>)
                  \o (IF FoundNoDiffering(details.to)
                      THEN << "the incoming mail server can reconstruct the email" >> ELSE << >>)
      failed(message) == [error |-> message, warned |-> FALSE]
  IN IF details.extra = "bcc" THEN failed("BCC is not supported!")
     ELSE IF details.extra = "cc" THEN failed("CC is not supported!")
     ELSE IF details.extra = "replyTo" THEN failed("ReplyTo is not supported!")
     ELSE IF details.extra = "followupTo" THEN failed("FollowUpTo is not supported!")
     ELSE IF Len(senders) <= 1 THEN failed("Sender information is missing!")
     ELSE IF Len(receivers) <= 1 THEN failed("Receiver information is missing!")
     ELSE IF senderIDs # Len(senders) THEN failed("Couldn't get sender IDs.")
     ELSE IF Len(senders) # sharedMessage
          THEN failed("The number of outgoing mails and shares do not match!")
     ELSE IF warnings # << >> /\ strictSecurity THEN failed(warnings[1])
     ELSE [error |-> Undefined, warned |-> Len(warnings) > 1]

InitPlugin ==
  /\ BuilderIdle
  /\ call = << >> /\ ret = Pending
  /\ user_options = << >> /\ main_pc = "none" /\ connections = "none"
  /\ exit_status = "running" /\ query_file = << >> /\ search_queries = << >>
  /\ mail_directory = {}
  /\ \E strictSecurity \in BOOLEAN, developMode \in BOOLEAN, details \in ComposeDetails :
       plugin = [strictSecurity |-> strictSecurity, developMode |-> developMode,
                 errorTabID |-> 0, warningTabID |-> 0, readTabID |-> 0,
                 tabs |-> {}, next_id |-> 1, removed_closed |-> FALSE,
                 compose |-> details, inputError |-> Undefined, sent |-> << >>]

PluginIdle == UNCHANGED << builder_vars, call, ret, user_options, main_pc, connections,
                           exit_status, query_file, search_queries, mail_directory >>

\* the send button: sendEncrypted with errorCheck, showWarning and showError
\* and, when the checks pass, removeAllAttachments and sendEmail per share
sendEncrypted ==
  /\ plugin.compose.open
  /\ plugin.next_id <= MaxTabs
  /\ LET details == plugin.compose
         senderReceiverPairs == getSenderReceiverPairs(details.from, details.to)
         sortedSenders == senderReceiverPairs.senders
         sortedReceivers == senderReceiverPairs.receivers
         messageShares == ShareCount(Len(sortedSenders))
         check == errorCheck(plugin.strictSecurity, details, sortedSenders, sortedReceivers)
         checked == IF check.warned THEN showWarning(plugin) ELSE plugin
         outgoing == [k \in 1..messageShares |-> << sortedSenders[k], sortedReceivers[k] >>]
     IN plugin' =
          IF check.error # Undefined
          THEN [showError(checked) EXCEPT !.inputError = check.error]
          ELSE [checked EXCEPT
                  !.inputError = Undefined,
                  !.compose.attachments = 0,
                  !.compose.open = plugin.developMode,
                  !.sent = IF plugin.developMode THEN @ ELSE @ \o outgoing]
  /\ PluginIdle

\* the combine button: decryptMessage ends in displayDecrypted, which opens
\* the read tab and calls showError when the script of the tab is rejected
displayDecrypted ==
  /\ \E rejected \in BOOLEAN :
       /\ plugin.next_id + (IF rejected THEN 1 ELSE 0) <= MaxTabs
       /\ LET removed == IF plugin.readTabID # 0 THEN RemoveTab(plugin, plugin.readTabID)
                          ELSE plugin
              shown == [CreateTab(removed, "read") EXCEPT !.readTabID = plugin.next_id]
          IN plugin' = IF rejected THEN showError(shown) ELSE shown
  /\ PluginIdle

\* the user closes a tab of the plugin; the browser fires tabs.onRemoved
tabsOnRemovedListener ==
  /\ \E tabId \in OpenTabs(plugin) :
       plugin' = [plugin EXCEPT !.tabs = {tab \in @ : tab[1] # tabId},
                                !.readTabID = IF tabId = @ THEN 0 ELSE @]
  /\ PluginIdle

NextPlugin == \/ sendEncrypted
              \/ displayDecrypted
              \/ tabsOnRemovedListener

SpecPlugin == InitPlugin /\ [][NextPlugin]_vars

-----------------------------------------------------------------------------
(* Properties.  Reference values are computed on plain characters and bits, *)
(* not through the share algebra.                                          *)

BitAnd(a, b) == a * b
BitOr(a, b) == IF a + b > 0 THEN 1 ELSE 0
BitNot(a) == 1 - a
BitXor(a, b) == (a + b) % 2

\* the characters compared by the search: the low 6 bits of a byte
SixBits(c) == c % 64

\* keyword k occurs in text t at offset p (0-based)
OccursAt(t, k, p) == \A c \in 1..Len(k) : SixBits(t[p + c]) = SixBits(k[c])

Occurs(t, k) == \E p \in 0..(Len(t) - Len(k)) : OccursAt(t, k, p)

AsBit(b) == IF b THEN 1 ELSE 0

\* M[n], n counted from 0: bit n of the decoded modifier chain, most significant
\* bit of each byte first
ModifierBit(chain, n) == BitOf(chain[(n \div ByteBits) + 1], ByteBits - 1 - (n % ByteBits))

\* the keyword of iteration j has been read and per_keyword belongs to it
KeywordInHand ==
  \/ pc = "search"
  \/ pc = "built" /\ num_queries >= 1
  \/ pc = "fetch" /\ j >= 1
  \/ pc = "failed" /\ fault \in {"invalid_argument", "out_of_bounds"}

\* the search of iteration j is complete for every target
KeywordSearched == KeywordInHand /\ pc \in {"fetch", "built"}

MinLengthInHand == getMinKeywordLength(search_keyword.bucket_size, bucket_scheme)

TextOfMail(k) == mails[k].secret_share_truncated_block

\* C1: for all bits r, m, o, n the chaining circuit returns r AND m when
\* (o, n) = (0, 0), r AND NOT m when (0, 1), r OR m when (1, 0) and r OR NOT m
\* when (1, 1).
C1_ChainIdentity ==
  (call.fn = "CreateChainingCircuit" /\ ret # Pending) =>
    ret = Wire1(IF call.o = 0 /\ call.n = 0 THEN BitAnd(call.r, call.m)
                ELSE IF call.o = 0 /\ call.n = 1 THEN BitAnd(call.r, BitNot(call.m))
                ELSE IF call.o = 1 /\ call.n = 0 THEN BitOr(call.r, call.m)
                ELSE BitOr(call.r, BitNot(call.m)))

C1_Witness ==
  /\ call.fn = "CreateChainingCircuit"
  /\ call.r = 0 /\ call.m = 0 /\ call.o = 1 /\ call.n = 1
  /\ ret = Wire1(1)

\* C2: every step of the builder leaves in the result wire of each target it
\* chains one bit, the next value of the left-to-right fold: match XOR M[0] for
\* the first keyword, CHAIN(previous, match, M[2j-1], M[2j]) for keyword j >= 1,
\* where match is the one-bit per-keyword match of that target.
C2_FoldStep(k) ==
  /\ IsBit(per_keyword'[k])
  /\ IF j = 0
     THEN search_results'[k] =
            Wire1(BitXor(per_keyword'[k][1][1], ModifierBit(modifier_chain_share, 0)))
     ELSE /\ IsBit(search_results[k])
          /\ LET r == search_results[k][1][1]
                 m == BitXor(per_keyword'[k][1][1], ModifierBit(modifier_chain_share, 2 * j))
                 o == ModifierBit(modifier_chain_share, 2 * j - 1)
             IN search_results'[k] = Wire1(IF o = 0 THEN BitAnd(r, m) ELSE BitOr(r, m))

C2_LeftToRightFold ==
  [][(pc = "search" /\ pc' \in {"search", "fetch", "built"}) =>
       \A k \in 1..Len(per_keyword') :
          (search_mode = "eIndex" \/ k = i + 1) => C2_FoldStep(k)]_vars

\* C3: in normal mode the per-keyword match of a mail is one bit, 1 iff the
\* keyword occurs in the text of the mail at some offset (on the 6 compared bits).
C3_NormalMatchIsSubstring ==
  (search_mode = "eNormal" /\ KeywordInHand) =>
    \A k \in 1..Len(per_keyword) :
       per_keyword[k] = Wire1(AsBit(Occurs(TextOfMail(k), search_keyword.keyword_truncated)))

\* C4: in hidden mode, for a keyword of true length L below its bucket size B,
\* the per-keyword match of a text equals the normal-mode match of the keyword
\* truncated to its first L characters (compared wherever the latter is one bit).
C4_LengthMaskNeutrality ==
  (search_mode = "eHidden" /\ KeywordInHand
   /\ Len(search_keyword.keyword_truncated) < search_keyword.bucket_size) =>
    \A k \in 1..Len(per_keyword) :
       LET normal == NormalSearch(Reconstructed(TextOfMail(k)),
                                  Reconstructed(search_keyword.keyword_truncated))
       IN IsBit(normal) => per_keyword[k] = normal

\* C5: the per-character match of two 8-bit bundles is 1 iff their low 6 bits
\* are equal; the two high bits never influence it.
C5_SixBitEquality ==
  (call.fn = "CharacterMatch" /\ ret # Pending) =>
    ret = Wire1(AsBit(SixBits(call.a) = SixBits(call.b)))

C5_Witness ==
  /\ call.fn = "CharacterMatch"
  /\ call.a = 193 /\ call.b = 1
  /\ ret = Wire1(1)

\* the buckets of a mail that a keyword of bucket size B can match
LargeEnough(buckets, B) ==
  SelectSeq(buckets, LAMBDA bucket : bucket.bucket_size >= B)

\* C6: in bucket mode the per-keyword match of a mail is the match of the mail
\* with every bucket smaller than the keyword's bucket size removed: the words
\* of such buckets never influence it.
C6_BucketMonotonicity ==
  (search_mode = "eBucket" /\ KeywordInHand) =>
    \A k \in 1..Len(per_keyword) :
       per_keyword[k] = BucketSearch(LargeEnough(mails[k].buckets, search_keyword.bucket_size),
                                     QueryInput(search_keyword), MinLengthInHand)

C6_Witness ==
  /\ search_mode = "eBucket" /\ KeywordSearched
  /\ search_keyword.keyword_bucketed = << 1, 1 >>
  /\ mails[1].buckets = << [bucket_size |-> 1, words |-> << << 1 >> >>],
                          [bucket_size |-> 2, words |-> << << 2, 2 >> >>] >>
  /\ per_keyword = << full_zero >>

\* the target about to be searched has no comparable position
EmptyTarget ==
  \/ /\ search_mode = "eNormal"
     /\ Len(TextOfMail(i + 1)) < Len(search_keyword.keyword_truncated)
  \/ /\ search_mode = "eHidden"
     /\ InScheme(search_keyword.bucket_size, bucket_scheme)
     /\ Len(TextOfMail(i + 1)) < MinLengthInHand
  \/ /\ search_mode = "eBucket"
     /\ InScheme(search_keyword.bucket_size, bucket_scheme)
     /\ \A b \in 1..Len(mails[i + 1].buckets) :
          mails[i + 1].buckets[b].bucket_size >= search_keyword.bucket_size =>
            \A w \in 1..Len(mails[i + 1].buckets[b].words) :
               Len(mails[i + 1].buckets[b].words[w]) < MinLengthInHand

\* C7: when the target has no comparable position (normal: text shorter than the
\* keyword; hidden: text shorter than min_len(B); bucket: no comparable position
\* in any bucket of size >= B) the step feeds the constant 0 into the chain and
\* construction goes on: no fault is raised and the result wire is chained.
C7_EmptyTargetSafety ==
  [][(pc = "search" /\ EmptyTarget) =>
       /\ pc' \in {"search", "fetch", "built"}
       /\ fault' = fault
       /\ per_keyword' = Append(per_keyword, full_zero)
       /\ search_results'[i + 1] =
            ChainOutcome(j, search_results[i + 1], full_zero, modifier_chain_share)]_vars

C7_Witness ==
  /\ search_mode = "eHidden" /\ KeywordSearched
  /\ bucket_scheme = << 2, 3 >>
  /\ search_keyword.bucket_size = 3
  /\ Len(mails) = 2
  /\ TextOfMail(1) = << 1, 1 >> /\ TextOfMail(2) = << >>
  /\ per_keyword = << full_zero, full_zero >>
  /\ j = 1 /\ search_results = << Wire1(1), Wire1(1) >>

\* the match of one indexed word taken alone
IndexedWordMatch(entry) ==
  IF entry.bucket_size < search_keyword.bucket_size THEN full_zero
  ELSE HiddenSearch(Reconstructed(entry.word), QueryInput(search_keyword), MinLengthInHand)

\* C8: in index mode the result vector has one entry per indexed word and entry
\* k is the match of the k-th indexed word in iteration order (buckets in file
\* order, words in order within the bucket), whatever the order of the bucket
\* sizes in the index.
C8_IndexResultOrder ==
  (search_mode = "eIndex" /\ KeywordSearched) =>
    /\ Len(per_keyword) = Len(IndexedWords(search_index))
    /\ \A k \in 1..Len(per_keyword) :
          per_keyword[k] = IndexedWordMatch(IndexedWords(search_index)[k])

\* C9: in index mode, when no position is comparable for the keyword (no words,
\* or every bucket smaller than the keyword's bucket size), the per-keyword
\* result of every indexed word is the constant 0 and construction goes on to
\* chaining without an error.
C9_IndexEmptyInput ==
  (/\ search_mode = "eIndex"
   /\ KeywordInHand /\ pc # "search"
   /\ InScheme(search_keyword.bucket_size, bucket_scheme)
   /\ IndexAllXnorsSize = 0) =>
    /\ pc # "failed"
    /\ fault = "none"
    /\ per_keyword = [k \in 1..Len(IndexedWords(search_index)) |-> full_zero]

\* C10: two assignments of per-party shares of one blob whose XOR over the
\* parties is the same plaintext are reconstructed to the same wires.
C10_ShareInvariance ==
  (call.fn = "base64StringToInput" /\ ret # Pending) => ret[1] = ret[2]

C10_Witness ==
  /\ call.fn = "base64StringToInput"
  /\ call.first = << << 90 >>, << 0 >> >>
  /\ call.second = << << 165 >>, << 255 >> >>
  /\ ret = << << ToInput(90) >>, << ToInput(90) >> >>

-----------------------------------------------------------------------------
\* C12: in every search mode a query keyword whose bucket size is not in the
\* public bucket scheme ends the run in a fatal failure: the builder never
\* searches a target with such a keyword and never completes the circuit
C12_InvalidBucketScheme ==
  (KeywordInHand /\ ~InScheme(search_keyword.bucket_size, bucket_scheme))
    => (pc \in {"search", "failed"} /\ per_keyword = << >>)

-----------------------------------------------------------------------------
\* the number of bits of the decoded length mask of the keyword in hand
LengthMaskBits == Len(QueryInput(search_keyword).length_mask)

\* C13: in hidden, bucket and index mode a keyword whose length mask does not
\* have exactly bucket_size bits stops circuit construction with a shape error:
\* no target is ever searched with such a keyword
C13_LengthMaskShape ==
  (search_mode \in {"eHidden", "eBucket", "eIndex"} /\ KeywordInHand
     /\ LengthMaskBits # search_keyword.bucket_size)
    => (pc \in {"search", "failed"} /\ per_keyword = << >>)

-----------------------------------------------------------------------------
\* the string is canonically padded Base64: whole quads of alphabet characters,
\* the last quad ending in at most two '='
Canonical(str) ==
  /\ Len(str) % 4 = 0
  /\ \A p \in 1..Len(str) : str[p] \in 0..63 \/ (str[p] = Pad /\ p >= Len(str) - 1)
  /\ \A p \in 1..(Len(str) - 1) : str[p] = Pad => str[p + 1] = Pad

\* C17: GetCharacterLengthFromBase64(s) is 3 * (len(s) / 4) minus the number of
\* '=' in s as an unsigned 32-bit value; it is 3 for "AAAA", 2 for "AAA=", 1 for
\* "AA==" and 0 for ""; for a canonically padded s it is not wrapped and equals
\* the number of bytes the input decoder produces for s.
C17_CharacterLengthLaw ==
  (call.fn = "GetCharacterLengthFromBase64" /\ ret # Pending) =>
    LET pads == Cardinality({p \in 1..Len(call.s) : call.s[p] = Pad})
        quads == Len(call.s) \div 4
    IN /\ ret[1] \in 0..65535 /\ ret[2] \in 0..65535
       /\ (3 * quads >= pads) => ret = << 0, 3 * quads - pads >>
       /\ (3 * quads < pads) => ret = << 65535, 65536 + 3 * quads - pads >>
       /\ Canonical(call.s) => ret = << 0, Len(simple_base64_decoder(call.s)) >>
       /\ GetCharacterLengthFromBase64(<< 0, 0, 0, 0 >>) = << 0, 3 >>
       /\ GetCharacterLengthFromBase64(<< 0, 0, 0, Pad >>) = << 0, 2 >>
       /\ GetCharacterLengthFromBase64(<< 0, 0, Pad, Pad >>) = << 0, 1 >>
       /\ GetCharacterLengthFromBase64(<< >>) = << 0, 0 >>

\* the length of a canonically padded string of two quads has been computed
C17_Witness ==
  /\ call.fn = "GetCharacterLengthFromBase64"
  /\ call.s = << 27, 27, 27, 27, 27, 27, Pad, Pad >>
  /\ ret = << 0, 4 >>

-----------------------------------------------------------------------------
\* Reference Base64 decoding, on bits: the sextets of the characters, most
\* significant bit first, cut into whole bytes
SextetBits(sextets) ==
  [n \in 1..(6 * Len(sextets)) |->
     (sextets[((n - 1) \div 6) + 1] \div (2 ^ (5 - ((n - 1) % 6)))) % 2]

RECURSIVE BitsValue(_, _, _)
BitsValue(bits, from, count) ==
  IF count = 0 THEN 0
  ELSE 2 * BitsValue(bits, from, count - 1) + bits[from + count - 1]

Base64Decoded(sextets) ==
  [k \in 1..((6 * Len(sextets)) \div 8) |->
     BitsValue(SextetBits(sextets), 8 * (k - 1) + 1, 8)]

\* the characters of the string before its first '='
BeforePadding(str) ==
  SubSeq(str, 1, Cardinality({p \in 1..Len(str) : \A q \in 1..p : str[q] # Pad}))

\* alphabet characters followed only by '='
PaddedAtEnd(str) ==
  /\ \A p \in 1..Len(str) : str[p] \in 0..63 \/ str[p] = Pad
  /\ \A p \in 1..(Len(str) - 1) : str[p] = Pad => str[p + 1] = Pad

\* C18: the input decoder returns the empty byte sequence for every string
\* holding a byte that is neither in the Base64 alphabet nor '=', wherever the
\* byte stands and however many valid characters precede it; for a string of
\* alphabet characters with '=' only at its end it returns the Base64-decoded
\* bytes in order.
C18_DecoderRejectsAndDecodes ==
  (call.fn = "simple_base64_decoder" /\ ret # Pending) =>
    /\ (\E p \in 1..Len(call.s) : call.s[p] = OtherByte) => ret[1] = << >>
    /\ PaddedAtEnd(call.s) => ret[1] = Base64Decoded(BeforePadding(call.s))

\* a string with an invalid byte after five valid characters has been decoded
C18_Witness ==
  /\ call.fn = "simple_base64_decoder"
  /\ call.s = << 27, 27, 27, 27, 27, OtherByte >>
  /\ ret = << << >> >>

-----------------------------------------------------------------------------
\* C11: whenever PrivMailSearch has returned, in every mode and on every input
\* (a query file without keyword entries included), every element of the result
\* vector is a wire of bit length 1.
C11_OutputWidth ==
  (main_pc = "search" /\ pc = "done") =>
    \A k \in 1..Len(search_results) : BitLength(search_results[k]) = 1

-----------------------------------------------------------------------------
\* C14: an input shape error is raised before any party communication: when
\* getMinKeywordLength rejects a bucket size in a run of two or more parties,
\* no TCP connection to another party has been set up.
C14_ShapeErrorBeforeCommunication ==
  (main_pc = "search" /\ pc = "failed" /\ fault = "invalid_argument"
     /\ Len(user_options.parties) = 2
     /\ {user_options.parties[k].id : k \in 1..2} = {0, 1})
    => connections = "none"

-----------------------------------------------------------------------------
\* the path the search mode needs is not on the command line
ModePathMissing(o) ==
  IF GetSearchMode(o.search_mode) = "eIndex" THEN ~o.index_file_path ELSE ~o.mail_dir_path

\* C15: with --search-mode index the program fails at startup unless
\* --index-file-path is given, with any other mode unless --mail-dir-path is
\* given: such a run never gets past ParseProgramOptions and never succeeds.
C15_ModePathRequired ==
  (~HelpPrinted(user_options) /\ ModePathMissing(user_options)) =>
    (main_pc = "parse" /\ exit_status # "success")

-----------------------------------------------------------------------------
\* id,dotted_ipv4,port: four dotted groups and a port of at most five digits
WellFormed(party_argument) == party_argument.host = 4 /\ party_argument.port <= 99999

\* --my-id is present and below #parties, every --parties argument is well
\* formed with an id below #parties, --query-file-path is present
ValidForMesh(o) ==
  /\ o.my_id # -1 /\ o.my_id < Len(o.parties)
  /\ \A k \in 1..Len(o.parties) : WellFormed(o.parties[k]) /\ o.parties[k].id < Len(o.parties)
  /\ o.query_file_path

\* C16 as stated: the TCP mesh is set up only on a valid command line, and
\* every other command line ends the program with a non-zero exit before a
\* connection is opened.
C16_AsStated ==
  main_pc # "none" =>
    /\ connections # "none" => ValidForMesh(user_options)
    /\ ~ValidForMesh(user_options) => (connections = "none" /\ exit_status # "success")

\* C16, amended: the TCP mesh is set up only on a valid command line; on every
\* other command line no connection is ever opened, and the program does not
\* end with exit status 0 unless it printed the help text (--help, or no
\* argument at all).
C16_MeshOnlyIfValid ==
  main_pc # "none" =>
    /\ connections # "none" => ValidForMesh(user_options)
    /\ ~ValidForMesh(user_options) =>
         /\ connections = "none"
         /\ exit_status = "success" => HelpPrinted(user_options)

\* the mesh of two parties has been set up
C16_Witness ==
  /\ main_pc = "search" /\ connections = "open"
  /\ user_options.my_id = 0 /\ Len(user_options.parties) = 2
  /\ user_options.parties[1].id = 0 /\ user_options.parties[2].id = 1

-----------------------------------------------------------------------------
EmptyRecord == [secret_share_truncated_block |-> << >>, buckets |-> << >>]

\* the buckets of a mail file whose size is in the scheme, in scheme order
RetainedBuckets(file, scheme) ==
  LET kept == {bucket \in file.secret_share_bucket_blocks :
                 InScheme(bucket.bucket_size, scheme)}
  IN [k \in 1..Cardinality(kept) |->
        CHOOSE bucket \in kept :
          Cardinality({other \in kept :
             IndexInScheme(other.bucket_size, scheme)
               <= IndexInScheme(bucket.bucket_size, scheme)}) = k]

\* C19: the corpus loader returns a dense vector of (max sequence number + 1)
\* mail records, each loaded mail at the index of its sequence number and an
\* empty record at every index without a file; in normal, hidden and bucket
\* mode the per-keyword match of an empty record is 0 for every keyword of
\* length >= 1.
C19_DenseCorpus ==
  (main_pc \in {"create_party", "search"} /\ user_options.mail_dir_path) =>
    LET numbers == {file.sequence_number : file \in mail_directory}
    IN /\ \A n \in numbers : n + 1 <= Len(mails)
       /\ Len(mails) = 1 \/ (Len(mails) - 1) \in numbers
       /\ \A file \in mail_directory :
            mails[file.sequence_number + 1] =
              [secret_share_truncated_block |-> file.secret_share_truncated_block,
               buckets |-> RetainedBuckets(file, bucket_scheme)]
       /\ \A n \in 1..Len(mails) : (n - 1) \notin numbers => mails[n] = EmptyRecord
       /\ (search_mode \in {"eNormal", "eHidden", "eBucket"} /\ KeywordInHand) =>
            \A k \in 1..Len(per_keyword) :
              (mails[k] = EmptyRecord /\ Len(search_keyword.keyword_truncated) >= 1)
                => per_keyword[k] = full_zero

\* a directory whose only mail has sequence number 1: the record at index 0 is
\* empty and has been searched in hidden mode
C19_Witness ==
  /\ main_pc = "search" /\ search_mode = "eHidden" /\ pc = "search"
  /\ {file.sequence_number : file \in mail_directory} = {1}
  /\ Len(mails) = 2 /\ mails[1] = EmptyRecord /\ mails[2] # EmptyRecord
  /\ per_keyword = << full_zero >>

-----------------------------------------------------------------------------
\* C20: the query loader produces one keyword per entry of `keywords` with more
\* than one field, in file order, and the entries it skips are exactly those
\* that hold only a `field` placeholder.
C20_QueryLoader ==
  main_pc \in {"create_party", "search"} =>
    LET kept == SelectSeq(query_file.keywords, LAMBDA entry : NodeSize(entry) > 1)
    IN /\ search_queries = [k \in 1..Len(kept) |-> kept[k].query]
       /\ \A k \in 1..Len(query_file.keywords) :
            NodeSize(query_file.keywords[k]) <= 1 =>
              (query_file.keywords[k].field /\ query_file.keywords[k].keys = {})

-----------------------------------------------------------------------------
\* C21: a key outside the recognised set in a YAML input file causes a loader
\* error: a query file with such a key in an entry of `keywords` is never
\* loaded successfully.
C21_UnknownKeysRejected ==
  main_pc \in {"create_party", "search"} =>
    \A k \in 1..Len(query_file.keywords) : query_file.keywords[k].keys \subseteq KeywordKeys

-----------------------------------------------------------------------------
\* the shape of a share: its wires and their SIMD lanes, every value blanked
Blank(x) == [w \in 1..Len(x) |-> [s \in 1..Len(x[w]) |-> 0]]
BlankEach(xs) == [n \in 1..Len(xs) |-> Blank(xs[n])]

\* the same bucket sizes, numbers of words and word lengths
SameBucketsShape(a, b) ==
  /\ Len(a) = Len(b)
  /\ \A k \in 1..Len(a) :
       /\ a[k].bucket_size = b[k].bucket_size
       /\ Len(a[k].words) = Len(b[k].words)
       /\ \A w \in 1..Len(a[k].words) : Len(a[k].words[w]) = Len(b[k].words[w])

\* the shapes of what the first pass of the batched comparison pushes
FirstPassShape(all_xnors, all_length_mask_bits) ==
  << [n \in 1..Len(all_xnors) |-> BlankEach(all_xnors[n])], BlankEach(all_length_mask_bits) >>

\* the first pass of the iteration: all_xnors and all_length_mask_bits
FirstPass(c) ==
  LET min_keyword_length == getMinKeywordLength(c.query.bucket_size, c.bucket_scheme)
      P == NumPositions(Len(c.text), min_keyword_length)
  IN CASE c.search_mode = "eNormal" -> << << >>, << >> >>
       [] c.search_mode = "eHidden" ->
            << WordXnors(Reconstructed(c.text), QueryInput(c.query), P),
               WordMaskBits(QueryInput(c.query), P) >>
       [] OTHER ->
            << FirstPassXnors(c.buckets, QueryInput(c.query), min_keyword_length),
               FirstPassMaskBits(c.buckets, QueryInput(c.query), min_keyword_length) >>

\* the iteration takes the branch that puts a constant 0 in place of a match
SubstitutesZero(c) ==
  IF c.search_mode = "eNormal"
  THEN NumPositions(Len(c.text), Len(c.query.keyword_truncated)) < 1
  ELSE FirstPass(c)[1] = << >>

\* the iteration of the same public shape (mode, scheme, text length, bucket
\* sizes, numbers and lengths of words, keyword length in eNormal and bucket
\* size in the other modes) in which every character is 1: it is built from
\* the lengths alone
OfShape(c) ==
  LET Ones(n) == [k \in 1..n |-> 1]
  IN [c EXCEPT
        !.text = Ones(Len(c.text)),
        !.buckets = [b \in 1..Len(c.buckets) |->
                       [bucket_size |-> c.buckets[b].bucket_size,
                        words |-> [w \in 1..Len(c.buckets[b].words) |->
                                     Ones(Len(c.buckets[b].words[w]))]]],
        !.query = IF c.search_mode = "eNormal"
                  THEN SearchQuery(Len(c.query.keyword_truncated),
                                   Ones(Len(c.query.keyword_truncated)), << >>)
                  ELSE SearchQuery(c.query.bucket_size, Ones(c.query.bucket_size), << >>)]

\* C22: the shape of the circuit does not depend on secret values.  Whatever
\* the texts, words and keywords are, an iteration pushes in its first pass
\* wires of the same shapes, takes the same substitute-0 branch and feeds into
\* the chain wires of the same shapes as the all-1 iteration of its public
\* shape (mode, scheme, lengths, bucket sizes); so any two iterations of one
\* public shape build the same gates.
C22_ShapeIndependence ==
  (call.fn = "PrivMailSearch" /\ ret # Pending) =>
    /\ OfShape(call) \in SearchCalls
    /\ FirstPassShape(FirstPass(OfShape(call))[1], FirstPass(OfShape(call))[2])
         = FirstPassShape(FirstPass(call)[1], FirstPass(call)[2])
    /\ BlankEach(SearchTargets(OfShape(call))) = BlankEach(ret[1])
    /\ SubstitutesZero(OfShape(call)) = SubstitutesZero(call)

\* a hidden search of a two-character text for a keyword of bucket size 2 has
\* pushed its first pass and yielded a wire
C22_Witness ==
  /\ call.fn = "PrivMailSearch" /\ ret # Pending
  /\ call.search_mode = "eHidden" /\ Len(call.text) = 2 /\ call.query.bucket_size = 2
  /\ FirstPass(call)[1] # << >>
  /\ ret[1] = << NotGate(full_zero) >>

-----------------------------------------------------------------------------
\* C23: driver ordering.  The party is created only after the loaders have
\* completed; Run() is called only on a completely built circuit of a
\* connected party; Run() and Finish() are called once; the statistics are
\* emitted only after Finish(); when the construction of the circuit fails,
\* Run() and Finish() are never called, and PrivMailSearch is not entered a
\* second time.
C23_DriverOrdering ==
  [][/\ (connections = "none" /\ connections' = "open")
          => (main_pc = "create_party" /\ search_mode # "none" /\ pc = "idle")
     /\ (pc # "done" /\ pc' = "done")
          => (pc = "built" /\ j = num_queries /\ connections = "open")
     /\ pc = "done" => pc' = "done"
     /\ (exit_status = "running" /\ exit_status' = "success" /\ main_pc # "parse")
          => (pc = "done" /\ main_pc = "search")
     /\ (pc = "failed" /\ fault # "simd_mismatch") => pc' = "failed"
     /\ pc # "idle" => pc' # "idle"
     /\ main_pc = "search" => main_pc' = "search"]_vars

\* a run of one keyword over one mail has emitted its statistics
C23_Witness ==
  /\ main_pc = "search" /\ pc = "done" /\ exit_status = "success"
  /\ num_queries >= 1 /\ Len(mails) >= 1 /\ connections = "closed"

-----------------------------------------------------------------------------
\* C24: the builder continues past its modifier-chain guard exactly when the
\* decoded modifier chain has at least 2 * Q - 1 bits for the Q loaded
\* keywords, for every Q >= 0: it stops at the guard only on a shorter chain
\* and builds only on a chain that is long enough.
C24_ModifierChainGuard ==
  main_pc = "search" =>
    /\ (pc = "failed" /\ fault = "assertion")
         => Len(ModifierChainInput(modifier_chain_share)) < 2 * num_queries - 1
    /\ pc \in {"fetch", "search", "built", "done"}
         => Len(ModifierChainInput(modifier_chain_share)) >= 2 * num_queries - 1

-----------------------------------------------------------------------------
\* the naive comparison of a bucketed keyword with word w at position p
\* (0-based): every keyword character c lies past the end of the word, is
\* masked out, or equals the character of the word on the low 6 bits
NaiveAt(w, query, p) ==
  \A c \in 0..(query.bucket_size - 1) :
     \/ p + c >= Len(w)
     \/ ModifierBit(query.keyword_length_mask, c) = 0
     \/ SixBits(w[p + c + 1]) = SixBits(query.keyword_bucketed[c + 1])

\* OR over the positions 0..|w| - min_len(B)
NaiveWord(w, query, scheme) ==
  AsBit(\E p \in 0..(Len(w) - getMinKeywordLength(query.bucket_size, scheme)) :
           NaiveAt(w, query, p))

\* C26: in hidden, bucket and index mode the batched evaluation yields for
\* every word the naive value, attributed to the word and target it was
\* generated from: the match of a text in eHidden, the OR over the words of
\* the searched buckets of a mail in eBucket, and in eIndex, entry k of the
\* result vector for the k-th indexed word (0 for a word of a skipped bucket).
C26_BatchedEqualsNaive ==
  (call.fn = "PrivMailSearch" /\ ret # Pending /\ call.search_mode # "eNormal") =>
    CASE call.search_mode = "eHidden" ->
           ret[1] = << Wire1(NaiveWord(call.text, call.query, call.bucket_scheme)) >>
      [] call.search_mode = "eBucket" ->
           ret[1] = << Wire1(AsBit(
                      \E b \in 1..Len(call.buckets) :
                        /\ call.buckets[b].bucket_size >= call.query.bucket_size
                        /\ \E w \in 1..Len(call.buckets[b].words) :
                             NaiveWord(call.buckets[b].words[w], call.query,
                                       call.bucket_scheme) = 1)) >>
      [] call.search_mode = "eIndex" ->
           ret[1] = [k \in 1..Len(IndexedWords(call.buckets)) |->
                       LET entry == IndexedWords(call.buckets)[k]
                       IN Wire1(IF entry.bucket_size < call.query.bucket_size THEN 0
                                ELSE NaiveWord(entry.word, call.query, call.bucket_scheme))]

-----------------------------------------------------------------------------
\* min_len(B): 1 for the first bucket size of the scheme, one more than the
\* preceding bucket size for a later one
MinLen(B, scheme) ==
  IF scheme[1] = B THEN 1
  ELSE scheme[(CHOOSE k \in 2..Len(scheme) : scheme[k] = B) - 1] + 1

\* the words an iteration compares: the text in eHidden, the words of the
\* buckets that are not smaller than the keyword's in eBucket and eIndex
ComparedWords(c) ==
  IF c.search_mode = "eHidden" THEN << c.text >>
  ELSE Flatten([b \in 1..Len(c.buckets) |->
                  IF c.buckets[b].bucket_size < c.query.bucket_size THEN << >>
                  ELSE c.buckets[b].words])

\* the sum over the words of |w| - min_len + 1 where this is positive
RECURSIVE PositionsBound(_, _)
PositionsBound(words, min_len) ==
  IF words = << >> THEN 0
  ELSE (IF Len(Head(words)) - min_len + 1 > 0 THEN Len(Head(words)) - min_len + 1 ELSE 0)
       + PositionsBound(Tail(words), min_len)

\* C27: getMinKeywordLength(B, scheme) returns 1 when B is the first element
\* of the scheme, the preceding element + 1 when B occurs later, and throws
\* when B is not in the scheme; in hidden, bucket and index mode the first
\* pass compares each word at |w| - min_len(B) + 1 positions (none when this
\* is below 1), B characters at each.
C27_MinKeywordLength ==
  /\ (call.fn = "getMinKeywordLength" /\ ret # Pending) =>
       ret = << IF \E k \in 1..Len(call.bucket_scheme) :
                     call.bucket_scheme[k] = call.bucket_size
               THEN MinLen(call.bucket_size, call.bucket_scheme) ELSE 0 >>
  /\ (call.fn = "PrivMailSearch" /\ ret # Pending /\ call.search_mode # "eNormal") =>
       Len(FirstPass(call)[1])
         = call.query.bucket_size
             * PositionsBound(ComparedWords(call),
                              MinLen(call.query.bucket_size, call.bucket_scheme))

\* the minimum length of the second bucket size of a scheme
C27_Witness ==
  /\ call.fn = "getMinKeywordLength" /\ call.bucket_scheme = << 1, 3 >>
  /\ call.bucket_size = 3 /\ ret = << 2 >>

-----------------------------------------------------------------------------
\* C25: for every message and every n >= 1, secretShare(message, n) returns
\* exactly n Base64 shares, each of which decodes to as many bytes as the
\* UTF-8 encoding of the message has, and secretCombine of the n shares, in
\* any order, returns the message.
C25_ShareRoundTrip ==
  (call.fn = "secretShare" /\ ret # Pending) =>
    LET bytes == Len(TextEncode(call.message))
    IN /\ Len(ret[1]) = call.n
       /\ \A k \in 1..Len(ret[1]) :
            /\ Len(base64ToUint8Array(ret[1][k])) = bytes
            /\ Len(ret[1][k]) = 4 * ((bytes + 2) \div 3)
       /\ ret[2] = call.message

\* the round trip of a message that does not start with U+FEFF
ShareRoundTripWithoutMark ==
  (/\ call.fn = "secretShare" /\ ret # Pending
   /\ (call.message = << >> \/ call.message[1] # 65279)) =>
    ret[2] = call.message

\* the shares of a message that starts with U+FEFF combine to its tail
MarkIsLost ==
  (/\ call.fn = "secretShare" /\ ret # Pending
   /\ call.message # << >> /\ call.message[1] = 65279) =>
    ret[2] = Tail(call.message)

-----------------------------------------------------------------------------
\* the entries of a list, each once
IsArrangementOf(array, list) ==
  /\ Len(array) = Len(list)
  /\ \A k \in 1..Len(list) : \E si \in 1..Len(array) : array[si] = list[k]

\* C29: getSenderReceiverPairs returns two arrays of equal length, sender i
\* paired with receiver i.  For equally many distinct senders and receivers
\* the pairing is a perfect matching: every sender and every receiver
\* appears exactly once, the pairs of one domain come before the others, and
\* no sender and receiver of two other pairs share a domain.  For different
\* numbers a and b it is the cross product of a * b pairs, sender by sender.
C29_SenderReceiverPairs ==
  (call.fn = "getSenderReceiverPairs" /\ ret # Pending) =>
    LET res == ret[1]
        a == Len(call.senders)
        b == Len(call.receivers)
        same(k) == Domain(res.senders[k]) = Domain(res.receivers[k])
    IN /\ Len(res.senders) = Len(res.receivers)
       /\ a = b =>
            /\ IsArrangementOf(res.senders, call.senders)
            /\ IsArrangementOf(res.receivers, call.receivers)
            /\ \A si, ri \in 1..Len(res.senders) : (si < ri /\ same(ri)) => same(si)
            /\ \A si, ri \in 1..Len(res.senders) :
                 (~same(si) /\ ~same(ri)) => Domain(res.senders[si]) # Domain(res.receivers[ri])
       /\ a # b =>
            /\ Len(res.senders) = a * b
            /\ \A si \in 1..a, ri \in 1..b :
                 /\ res.senders[(si - 1) * b + ri] = call.senders[si]
                 /\ res.receivers[(si - 1) * b + ri] = call.receivers[ri]

\* three senders and three receivers: the second sender finds no free
\* receiver of its domain and is paired last, across domains
C29_Witness ==
  /\ call.fn = "getSenderReceiverPairs" /\ ret # Pending
  /\ call.senders = << << 1, 1 >>, << 2, 1 >>, << 1, 2 >> >>
  /\ call.receivers = << << 1, 1 >>, << 1, 2 >>, << 2, 2 >> >>
  /\ ret[1].senders = << << 1, 1 >>, << 1, 2 >>, << 2, 1 >> >>
  /\ ret[1].receivers = << << 1, 1 >>, << 1, 2 >>, << 2, 2 >> >>

-----------------------------------------------------------------------------
\* every address of the list has the same domain
OneDomain(list) == \A a, b \in 1..Len(list) : Domain(list[a]) = Domain(list[b])

NothingSent ==
  /\ plugin'.sent = plugin.sent
  /\ plugin'.compose.attachments = plugin.compose.attachments

\* C28: in strict security mode sendEncrypted sends no share and removes no
\* attachment of the compose tab when all sender addresses or all receiver
\* addresses share one domain; and whenever errorCheck returns an error
\* message, sendEncrypted sends nothing and leaves the attachments as they are.
C28_NothingSentOnError ==
  [][sendEncrypted =>
       /\ (/\ plugin.strictSecurity
           /\ OneDomain(plugin.compose.from) \/ OneDomain(plugin.compose.to)) => NothingSent
       /\ plugin'.inputError # Undefined => NothingSent]_vars

\* strict mode, two senders of one domain, receivers of two domains, an
\* attachment: the error is shown, nothing is sent, the attachment is there
C28_Witness ==
  /\ plugin # << >> /\ plugin.strictSecurity
  /\ plugin.compose.from = << << 1, 1 >>, << 2, 1 >> >>
  /\ plugin.compose.to = << << 1, 1 >>, << 1, 2 >> >>
  /\ plugin.compose.extra = "none" /\ plugin.compose.accounts
  /\ plugin.inputError = "the outgoing mail server can reconstruct the email"
  /\ plugin.errorTabID # 0
  /\ plugin.compose.attachments = 1 /\ plugin.sent = << >> /\ plugin.compose.open

\* C30: errorTabID, warningTabID and readTabID are each 0 whenever their tab
\* is not open, the plugin never removes a tab that is already closed, and
\* at most one tab of each kind is open.
C30_TabIds ==
  plugin # << >> =>
    /\ plugin.errorTabID # 0 => << plugin.errorTabID, "error" >> \in plugin.tabs
    /\ plugin.warningTabID # 0 => << plugin.warningTabID, "warning" >> \in plugin.tabs
    /\ plugin.readTabID # 0 => << plugin.readTabID, "read" >> \in plugin.tabs
    /\ ~plugin.removed_closed
    /\ \A a, b \in plugin.tabs : a[2] = b[2] => a = b

\* what holds of the read tab, whose id tabsOnRemovedListener resets
ReadTabIdTracked ==
  plugin # << >> =>
    (plugin.readTabID # 0 => << plugin.readTabID, "read" >> \in plugin.tabs)

AtMostOneTabOfEachKind ==
  plugin # << >> => \A a, b \in plugin.tabs : a[2] = b[2] => a = b

====
